---- MODULE Spec2Model ----
(***************************************************************************)
(* A model of the PDF writer of mostafah/pdf.go.  The repository holds     *)
(* several revisions of the Document type; three of them are modelled and  *)
(* selected by the variable rev:                                           *)
(*   "old"    -- part_004:250-483: Save() without result, add returns the  *)
(*               fresh *indirect, setNum(len(d.objs)), writeBody ranges    *)
(*               over copies;                                              *)
(*   "mem"    -- pdf.go: objects kept in memory as []indirect, Save()      *)
(*               returns (n, err) and writes header, body, xref, trailer;  *)
(*   "stream" -- part_005: New writes the header, savePage writes objects  *)
(*               as they are made (outputIndirect), Close writes page      *)
(*               tree, catalog, xref and trailer.                          *)
(* Bytes are TLA+ strings; one character is one byte.                      *)
(***************************************************************************)
EXTENDS Integers, Sequences, FiniteSets, TLC

VARIABLES
    rev,     \* which revision of Document this behaviour runs
    born,    \* New has been called
    heap,    \* Go heap: a sequence of arrays of indirect structs
    objs,    \* d.objs: slice header [a, len, cap] ("old"/"mem"), list of pointers ("stream")
    w,       \* d.w: "nil" or "sink"
    off,     \* d.off
    xOff,    \* d.xOff
    cat,     \* d.cat   (pointer, or NilPtr)
    ptree,   \* d.ptree (pointer, or NilPtr)
    pg,      \* d.pg    (current page, or NilPage)
    pgs,     \* d.pgs   (list of pointers)
    con,     \* d.con   (current content buffer, or NilBuf; "stream" only)
    out,     \* every byte the sink has accepted
    ret,     \* what the last public call returned: [op, err, n]
    hist,    \* history of the calls and writes, kept for the properties
    ord,     \* the order in which this build's maps hand out their keys
    dict,    \* a pDict under test (SpecDict only)
    arg      \* a native value under test (SpecResolve only)

vars == <<rev, born, heap, objs, w, off, xOff, cat, ptree, pg, pgs, con, out, ret, hist, ord,
          dict, arg>>

-----------------------------------------------------------------------------
(* Bounds *)

MaxCalls == 7          \* weight of the public calls on one document (Spec)
MaxPages == 9          \* NewPage calls on one document (SpecPages)
MaxSaves == 2          \* Save calls on one document (SpecPages)
MaxPuts == 3           \* put calls on the dictionary under test (SpecDict)
MaxNest == 2           \* slices and maps around the value under test (SpecResolve)
MaxAppends == 2        \* append calls on the stream under test (SpecResolve)
MaxSets == 2           \* set calls on the indirect under test (SpecIndirect)
MaxNum == 40           \* numerator of the float under test (SpecNumber)
MaxFrac == 3           \* binary digits after the point of the float under test (SpecNumber)
MaxWrites == 4         \* writes to the sink of the writer under test (SpecOffset)
MaxBodies == 2         \* objects of the document saved to a file (SpecFile)
MaxFileSaves == 2      \* Save(fname) calls on one document (SpecFile)
MaxDraws == 2          \* drawing commands on one document (SpecDraw)

Revs == {"old", "mem", "stream"}
PageSizes == {1}       \* width = height of the pages made by NewPage
FailAccept == {0, 1}   \* bytes a refused write accepts before it fails
MapOrders == {"fwd", "rev"}   \* orders reflect.MapKeys may produce
Cmds == {"S", "h"}     \* Stroke, ClosePath

-----------------------------------------------------------------------------
(* Bytes *)

Min(a, b) == IF a < b THEN a ELSE b

\* strconv.Itoa / fmt %d
Itoa(n) == ToString(n)

\* fmt %010d: at least ten bytes, the sign before the zeros
Pad10(n) ==
    LET s == ToString(n)
    IN  IF Len(s) >= 10 THEN s
        ELSE IF n < 0 THEN "-" \o SubSeq("0000000000", 1, 10 - Len(s)) \o SubSeq(s, 2, Len(s))
        ELSE SubSeq("0000000000", 1, 10 - Len(s)) \o s

RECURSIVE Pow(_, _)
Pow(b, e) == IF e = 0 THEN 1 ELSE b * Pow(b, e - 1)

Abs(v) == IF v < 0 THEN -v ELSE v

\* s with zeros in front, up to the width wd
PadZeros(s, wd) == IF Len(s) >= wd THEN s ELSE SubSeq("0000000000", 1, wd - Len(s)) \o s

\* A floating-point number is [neg, n, k]: the sign, and the magnitude
\* n / 2^k.  Norm gives the form in which k is least.
RECURSIVE Norm(_)
Norm(f) ==
    IF f.k > 0 /\ f.n % 2 = 0 THEN Norm([f EXCEPT !.n = f.n \div 2, !.k = f.k - 1]) ELSE f

\* the float that equals the integer v
Float(v) == [neg |-> v < 0, n |-> Abs(v), k |-> 0]

\* the digits of the fraction r / 2^k, all k of them
FracDigits(r, k) == PadZeros(ToString(r * Pow(5, k)), k)

\* the fraction of f in hundredths, the nearest: 0 to 100
FixedFrac(f) == ((f.n % Pow(2, f.k)) * 200 + Pow(2, f.k)) \div Pow(2, f.k + 1)

\* strconv.Ftoa64(f, 'f', 2) in place of precision -1: two digits after
\* the point, the nearest
FtoaFixed(f) ==
    (IF f.neg THEN "-" ELSE "")
    \o ToString(f.n \div Pow(2, f.k) + FixedFrac(f) \div 100) \o "."
    \o PadZeros(ToString(FixedFrac(f) % 100), 2)

\* strconv.Ftoa64(f, 'f', -1): the fewest digits that give f back, no
\* exponent; for n / 2^k with few digits these are all the digits of the
\* exact decimal expansion, and no point when there is no fraction
Ftoa(f) ==
    (IF f.neg THEN "-" ELSE "")
    \o ToString(Norm(f).n \div Pow(2, Norm(f).k))
    \o (IF Norm(f).k = 0 THEN ""
        ELSE "." \o FracDigits(Norm(f).n % Pow(2, Norm(f).k), Norm(f).k))

\* the widths of Go's types: int of the compilers that build this source,
\* and the significands of float64 and float32
IntBits == 32
\* the largest int
MaxInt == (Pow(2, IntBits - 2) - 1) * 2 + 1

\* a + n in an int, n >= 0: the sum wraps around past the largest int
AddInt(a, n) == IF a > MaxInt - n THEN (a - MaxInt - 1) + (n - MaxInt - 1) ELSE a + n
Mant64 == 53
Mant32 == 24

RECURSIVE BitLen(_)
\* the number of binary digits of a >= 0
BitLen(a) == IF a = 0 THEN 0 ELSE 1 + BitLen(a \div 2)

\* a >= 2^bits rounded to bits binary digits, to the nearest and to even
RoundBits(a, bits) ==
    Pow(2, BitLen(a) - bits)
    * ((a \div Pow(2, BitLen(a) - bits))
       + (IF \/ 2 * (a % Pow(2, BitLen(a) - bits)) > Pow(2, BitLen(a) - bits)
             \/ /\ 2 * (a % Pow(2, BitLen(a) - bits)) = Pow(2, BitLen(a) - bits)
                /\ (a \div Pow(2, BitLen(a) - bits)) % 2 = 1
          THEN 1 ELSE 0))

\* the conversion of the int v to a float with a significand of bits
\* binary digits: the integer the float equals
IntToFloat(v, bits) ==
    IF bits >= IntBits - 1 \/ BitLen(Abs(v)) <= bits THEN v
    ELSE IF v < 0 THEN -RoundBits(-v, bits) ELSE RoundBits(v, bits)

\* strconv.Ftoa64(v, 'f', -1) on the integral values the writer produces
Ftoa64(v) == Ftoa(Float(v))

\* strconv.Ftoa32(v, 'f', -1), likewise
Ftoa32(v) == Ftoa(Float(v))

RECURSIVE Join(_, _)
\* bytes.Join
Join(parts, sep) ==
    IF Len(parts) = 0 THEN ""
    ELSE IF Len(parts) = 1 THEN parts[1]
    ELSE parts[1] \o sep \o Join(Tail(parts), sep)

\* the first n bytes of b
Prefix(b, n) == SubSeq(b, 1, Min(n, Len(b)))

Reverse(s) == [i \in 1..Len(s) |-> s[Len(s) + 1 - i]]

-----------------------------------------------------------------------------
(* Pointers and the heap *)

NilPtr == [a |-> 0, i |-> 0]
NilPage == [nil |-> TRUE]
NilBuf == [nil |-> TRUE, b |-> ""]

Deref(h, p) == h[p.a][p.i]

\* runtime growslice: a full slice doubles its capacity in a new array
GrowCap(c) == IF c = 0 THEN 1 ELSE 2 * c

\* make([]indirect, 0, 10)
InitCap == 10

-----------------------------------------------------------------------------
(* PDF objects (object.go, second revision) *)

PNull == [t |-> "null"]
PNil == [t |-> "nil"]        \* a nil pObject interface, as made by d.add(nil)
PBoolean(b) == [t |-> "pbool", v |-> b]
PName(s) == [t |-> "name", v |-> s]
PNumber(n) == [t |-> "num", v |-> n]            \* a pNumber that equals the integer n
PNumberF(f) == [t |-> "numf", v |-> f]          \* a pNumber given as [neg, n, k]
PString(s) == [t |-> "str", v |-> s]
PStream(b) == [t |-> "stream", v |-> b]
PArray(s) == [t |-> "array", v |-> s]
PDict(s) == [t |-> "dict", v |-> s]
PRef(p) == [t |-> "ref", p |-> p]      \* an *indirect used as a pObject

\* the dynamic types that implement pObject
PObjectTags == {"null", "pbool", "name", "num", "numf", "str", "stream", "array", "dict", "ref"}

\* native Go values handed to pobj and to output.  Numbers are integral:
\* a float is written by the integer it equals.
GoNil == [t |-> "gonil"]                  \* the nil interface value
GoBool(b) == [t |-> "bool", v |-> b]
GoInt(n) == [t |-> "int", v |-> n]
GoSized(n) == [t |-> "sized", v |-> n]    \* int8, int16, int32, int64
GoFloat32(n) == [t |-> "float32", v |-> n]
GoFloat(n) == [t |-> "float", v |-> n]    \* float64 that equals the integer n
GoFloatF(f) == [t |-> "floatf", v |-> f]  \* float64 given as [neg, n, k]
GoString(s) == [t |-> "string", v |-> s]
GoBytes(b) == [t |-> "bytes", v |-> b]
GoSlice(s) == [t |-> "slice", v |-> s]
GoMap(s) == [t |-> "map", v |-> s]        \* map[string]T, pairs in the order of the literal
GoKeyed(s) == [t |-> "keyed", v |-> s]    \* a map whose keys are not strings
GoOther(k) == [t |-> "other", v |-> k]    \* struct, chan, func, pointer to another type
GoPageObj(p) == [t |-> "pageobj", v |-> p]   \* *page of page.go:73, a pObjectable

\* the value of a panic that leaves pobj
Panic(e) == [t |-> "panic", v |-> e]

newPair(k, v) == [key |-> k, val |-> v]

RECURSIVE pobjOrd(_, _), put(_, _, _), putAll(_, _), pagePObject(_)
\* pobj, with the order mo in which reflect.MapKeys hands out the keys of
\* every map of the value
pobjOrd(v, mo) ==
    CASE v.t = "gonil" -> PNull
      [] v.t = "nil" -> PNull
      [] v.t = "bool" -> PBoolean(v.v)
      [] v.t = "int" -> PNumber(v.v)
      [] v.t = "float32" -> PNumber(v.v)
      [] v.t = "float" -> PNumber(v.v)
      [] v.t = "floatf" -> PNumberF(v.v)
      [] v.t = "string" -> PString(v.v)
      [] v.t \in PObjectTags -> v
      [] v.t = "bytes" -> PStream(v.v)
      [] v.t = "pageobj" -> pagePObject(v.v)
      [] v.t = "slice" ->
            IF \E i \in 1..Len(v.v) : pobjOrd(v.v[i], mo).t = "panic"
            THEN Panic("string")
            ELSE [t |-> "array", v |-> [i \in 1..Len(v.v) |-> pobjOrd(v.v[i], mo)]]
      [] v.t = "map" ->
            IF \E i \in 1..Len(v.v) : pobjOrd(v.v[i].val, mo).t = "panic"
            THEN Panic("string")
            ELSE [t |-> "dict",
                  v |-> putAll(<<>>, [i \in 1..Len(v.v) |->
                                         newPair(v.v[IF mo = "rev" THEN Len(v.v) + 1 - i ELSE i].key,
                                                 pobjOrd(v.v[IF mo = "rev" THEN Len(v.v) + 1 - i
                                                             ELSE i].val, mo))])]
      [] v.t = "keyed" ->
            IF Len(v.v) = 0 THEN [t |-> "dict", v |-> <<>>] ELSE Panic("string")
      [] OTHER -> PNull

\* pobj makes a pObject out of the given value
pobj(v) == pobjOrd(v, ord)

\* the loop of pobj over the keys of a map: d.put(k.String(), pobj(r.MapIndex(k)));
\* pairs holds the keys in the order of MapKeys, each with its resolved value
putAll(d, pairs) ==
    IF Len(pairs) = 0 THEN d
    ELSE putAll(put(d, pairs[1].key, pairs[1].val), Tail(pairs))

\* pDict.add appends the pair
pDictAdd(d, p) == Append(d, p)

\* pDict.put as a plausible bug would have it: always append
putAppend(d, k, v) == pDictAdd(d, newPair(k, pobj(v)))

\* pDict.put: update the pair with this key, or append a new pair
put(d, k, v) ==
    IF \E i \in 1..Len(d) : d[i].key = k
    THEN LET i == CHOOSE i \in 1..Len(d) :
                      /\ d[i].key = k
                      /\ \A j \in 1..(i - 1) : d[j].key # k
         IN  [d EXCEPT ![i].val = pobj(v)]
    ELSE pDictAdd(d, newPair(k, pobj(v)))

newPDict == <<>>

\* pStream.append as a plausible bug would have it: the buffer is replaced
pStreamAppendOver(s, v) == PStream(v)

\* pStream.append: writes v at the end of the buffer
pStreamAppend(s, v) == PStream(s.v \o v)
newPDictType(typ) == put(newPDict, "Type", PName(typ))

\* indirect.toBytes as a plausible bug would have it: the head and the
\* tail of the body in place of the reference
indirectToBytesBody(i) == Itoa(i.num) \o " 0 obj\n" \o "\nendobj\n"

\* indirect.toBytes: the reference token
indirectToBytes(i) == Itoa(i.num) \o " 0 R"

RECURSIVE toBytes(_, _)
\* pObject.toBytes; h is the heap, read by indirect.toBytes for the number
toBytes(v, h) ==
    CASE v.t = "null" -> "null"
      [] v.t = "pbool" -> IF v.v THEN "true" ELSE "false"
      [] v.t = "num" -> Ftoa64(v.v)
      [] v.t = "numf" -> Ftoa(v.v)
      [] v.t = "str" -> "(" \o v.v \o ")"
      [] v.t = "name" -> "/" \o v.v
      [] v.t = "array" ->
            Join(<<"[">> \o [i \in 1..Len(v.v) |-> toBytes(v.v[i], h)] \o <<"]">>, " ")
      [] v.t = "dict" ->
            Join(<<"<<">>
                 \o [i \in 1..Len(v.v) |->
                        Join(<<toBytes(PName(v.v[i].key), h), toBytes(v.v[i].val, h)>>, " ")]
                 \o <<">>">>, "\n")
      [] v.t = "stream" ->
            Join(<<toBytes(PDict(put(newPDict, "Length", PNumber(Len(v.v)))), h),
                   "stream", v.v, "endstream">>, "\n")
      [] v.t = "ref" -> indirectToBytes(Deref(h, v.p))

\* indirect.body
body(i, h) == Itoa(i.num) \o " 0 obj\n" \o toBytes(i.obj, h) \o "\nendobj\n"

\* indirect.ref as a plausible bug would have it: %d in place of %010d
refUnpadded(i) == ToString(i.off) \o " 00000 n\r\n"

\* indirect.ref
ref(i) == Pad10(i.off) \o " 00000 n\r\n"

\* newIndirect, indirect.set, indirect.setNum, indirect.setOffset
newIndirect(o) == [obj |-> o, num |-> 0, off |-> 0]
indirectSet(i, o) == [i EXCEPT !.obj = o]
setNum(i, n) == [i EXCEPT !.num = n]
setOffset(i, o) == [i EXCEPT !.off = o]

\* rect as the array of its four corners
rectObject(llx, lly, urx, ury) ==
    PArray(<<PNumber(llx), PNumber(lly), PNumber(urx), PNumber(ury)>>)

\* newPage(w, h, par)
newPage(pw, ph, par) == [w |-> pw, h |-> ph, par |-> par, con |-> <<>>]

\* page.pObject
pagePObject(p) ==
    PDict(put(put(newPDictType("Page"), "Parent", PRef(p.par)),
              "MediaBox", rectObject(0, 0, p.w, p.h)))

-----------------------------------------------------------------------------
(* The machine: the document, the sink and the state of the running call.  *)
(* A public call is one action; its body is a composition of operators     *)
(* from machine to machine.  m.err # "ok" is a panic on its way up to the  *)
(* deferred recover: every statement after it is skipped.                  *)

\* plan: which write of the call the sink refuses ("none": no write), and
\* how many bytes that write accepts before it fails
Plans == [kind : {"header", "body", "objhead", "objval", "objend", "xrefhead",
                  "xreffree", "xrefline", "trailer", "trailerdict",
                  "startxref", "eof"},
          n : FailAccept]
NoPlan == [kind |-> "none", n |-> 0]

Cur(plan) ==
    [heap |-> heap, objs |-> objs, w |-> w, off |-> off, xOff |-> xOff,
     cat |-> cat, ptree |-> ptree, pg |-> pg, pgs |-> pgs, con |-> con,
     out |-> out, hist |-> hist,
     err |-> "ok", plan |-> plan, fired |-> FALSE, rfail |-> -1, ord |-> ord, p |-> NilPtr]

\* the statements after a call run only if the call did not panic
Then(m, F(_)) == IF m.err # "ok" THEN m ELSE F(m)

\* x := e, for the statements F that follow
Let(x, F(_)) == F(x)

\* the weight of a call: 1, and 2 more when the sink refuses one of its writes
Weight(m) == IF m.fired THEN 3 ELSE 1
Affordable(plan) == hist.cost + (IF plan.kind = "none" THEN 1 ELSE 3) <= MaxCalls

Commit(m) ==
    /\ heap' = m.heap
    /\ objs' = m.objs
    /\ w' = m.w
    /\ off' = m.off
    /\ xOff' = m.xOff
    /\ cat' = m.cat
    /\ ptree' = m.ptree
    /\ pg' = m.pg
    /\ pgs' = m.pgs
    /\ con' = m.con
    /\ out' = m.out
    /\ hist' = m.hist

\* n, err := d.w.Write(b); d.off += n; check(err)
Write(m, kind, b) ==
    IF m.err # "ok" THEN m
    ELSE IF m.plan.kind = kind /\ ~m.fired
    THEN LET acc == Prefix(b, m.plan.n)
         IN  [m EXCEPT !.out = @ \o acc, !.off = @ + Len(acc),
                       !.err = "io", !.fired = TRUE]
    ELSE [m EXCEPT !.out = @ \o b, !.off = @ + Len(b)]

\* n, err = d.w.Write(b) whose n and err are overwritten by the next write
WriteDropped(m, kind, b) ==
    IF m.err # "ok" THEN m
    ELSE IF m.plan.kind = kind /\ ~m.fired
    THEN [m EXCEPT !.out = @ \o Prefix(b, m.plan.n), !.fired = TRUE]
    ELSE [m EXCEPT !.out = @ \o b]

\* writeHeader; the four two-byte letters of the comment are written X
writeHeader(m) == Write(m, "header", "%PDF-1.7\n%XXXXXXXX\n")

-----------------------------------------------------------------------------
(* Revisions "old" and "mem": the objects are a []indirect *)

ObjsOf(m) ==
    IF rev = "stream" THEN [k \in 1..Len(m.objs) |-> Deref(m.heap, m.objs[k])]
    ELSE SubSeq(m.heap[m.objs.a], 1, m.objs.len)

NObjs(m) == IF rev = "stream" THEN Len(m.objs) ELSE m.objs.len

\* Document.add: i = newIndirect(o); i.setNum(..); d.objs = append(d.objs, *i).
\* "old" numbers from len(d.objs) and returns i, the fresh struct; "mem"
\* numbers from len(d.objs)+1 and returns &d.objs[len(d.objs)-1].  append
\* moves a full slice to a new array and leaves the old array to the
\* pointers that still hold it.
add(m, o) ==
    LET n == m.objs.len
        i == [obj |-> o, num |-> IF rev = "old" THEN n ELSE n + 1, off |-> 0]
        full == n = m.objs.cap
        h1 == IF full THEN Append(m.heap, Append(SubSeq(m.heap[m.objs.a], 1, n), i))
              ELSE [m.heap EXCEPT ![m.objs.a] = Append(@, i)]
        h2 == IF rev = "old" THEN Append(h1, <<i>>) ELSE h1
        o1 == IF full THEN [a |-> Len(m.heap) + 1, len |-> n + 1, cap |-> GrowCap(m.objs.cap)]
              ELSE [m.objs EXCEPT !.len = n + 1]
    IN  [m EXCEPT !.heap = h2, !.objs = o1,
                  !.p = IF rev = "old" THEN [a |-> Len(h2), i |-> 1]
                        ELSE [a |-> o1.a, i |-> n + 1]]

\* indirect.set through a pointer
set(m, p, o) == [m EXCEPT !.heap[p.a][p.i].obj = o]

\* savePage ("old", "mem"): adds the current page to objs
savePageMem(m) ==
    IF m.pg = NilPage THEN m
    ELSE Let(add(m, pagePObject(m.pg)), LAMBDA m1 : [m1 EXCEPT !.pgs = Append(@, m1.p)])

\* d.pg = newPage(w, h, d.ptree) ("old", "mem")
newPageMem(m, sz) == [m EXCEPT !.pg = newPage(sz, sz, m.ptree)]

\* updatePageTree ("old", "mem")
updatePageTreeMem(m) ==
    Let(savePageMem(m), LAMBDA m1 :
        set(m1, m1.ptree,
            PDict(put(put(newPDictType("Pages"), "Count", GoInt(Len(m1.pgs))), "Kids",
                      PArray([k \in 1..Len(m1.pgs) |-> pobj(PRef(m1.pgs[k]))])))))

\* saveCatalog ("old", "mem")
saveCatalogMem(m) ==
    IF m.ptree = NilPtr THEN m
    ELSE set(m, m.cat, PDict(put(newPDictType("Catalog"), "Pages", PRef(m.ptree))))

RECURSIVE writeBodyFrom(_, _)
\* the loop of writeBody from index k on.  "mem" sets the offset of
\* d.objs[i]; "old" ranges over copies, so setOffset changes the copy only.
\* An indirect made by d.add(nil) holds a nil pObject, and body() panics on it.
writeBodyFrom(m, k) ==
    IF m.err # "ok" \/ k > m.objs.len THEN m
    ELSE Let([m EXCEPT !.heap[m.objs.a][k].off = IF rev = "old" THEN @ ELSE m.off,
                       !.hist.log = Append(@, [idx |-> k, pos |-> Len(m.out),
                                               set |-> rev # "old",
                                               call |-> m.hist.nfinal])],
             LAMBDA m2 :
         Let(IF m2.heap[m.objs.a][k].obj = PNil
             THEN [m2 EXCEPT !.err = "runtime", !.rfail = Len(m2.out)]
             ELSE Write(m2, "body", body(m2.heap[m.objs.a][k], m2.heap)),
             LAMBDA m3 :
         writeBodyFrom(IF m3.err # "ok" THEN [m3 EXCEPT !.hist.bodyFailed = TRUE] ELSE m3,
                       k + 1)))

\* writeBody ("old", "mem")
writeBody(m) == writeBodyFrom(m, 1)

RECURSIVE writeRefLines(_, _)
\* the loop of writeRefs from index k on
writeRefLines(m, k) ==
    IF m.err # "ok" \/ k > NObjs(m) THEN m
    ELSE writeRefLines(Write(m, "xrefline", ref(ObjsOf(m)[k])), k + 1)

\* writeRefs (all revisions)
writeRefs(m) ==
    IF m.err # "ok" THEN m
    ELSE writeRefLines(
             Write(Then(Write([m EXCEPT !.xOff = m.off, !.hist.xpos = Len(m.out)], "xrefhead",
                              "xref\n" \o Itoa(0) \o " " \o Itoa(NObjs(m) + 1) \o "\n"),
                        LAMBDA m1 : [m1 EXCEPT !.hist.nxref = @ + 1]),
                   "xreffree", "0000000000 65535 f\r\n"),
             1)

\* the trailer dictionary ("old": Size only; "mem": Size and Root)
trailerDict(m) ==
    Let(put(newPDict, "Size", GoInt(NObjs(m) + 1)),
        LAMBDA size : IF rev = "old" THEN size ELSE put(size, "Root", PRef(m.cat)))

\* writeTrailer ("old": Size only, no startxref; "mem": Size, Root, startxref)
writeTrailerMem(m) ==
    IF m.err # "ok" THEN m
    ELSE Let(Write(Then(Write(m, "trailer", "trailer\n"),
                        LAMBDA m1 : [m1 EXCEPT !.hist.ntrailer = @ + 1]),
                   "trailerdict", toBytes(PDict(trailerDict(m)), m.heap)),
             LAMBDA m3 :
         Write(IF rev = "old" THEN m3
               ELSE WriteDropped(m3, "startxref", "startxref\n" \o Itoa(m.xOff) \o "\n"),
               "eof", "%%EOF\n"))

\* write as it would be without the test of d.w: the parts go out
writeAllUnchecked(m) ==
    writeTrailerMem(writeRefs(writeBody(writeHeader(
        [m EXCEPT !.off = 0, !.hist.base = Len(m.out)]))))

\* the write pass of Save ("mem") and of write ("old")
writeAll(m) ==
    IF m.w = "nil" THEN [m EXCEPT !.off = 0, !.hist.base = Len(m.out), !.err = "string"]
    ELSE writeTrailerMem(writeRefs(writeBody(writeHeader(
             [m EXCEPT !.off = 0, !.hist.base = Len(m.out)]))))

-----------------------------------------------------------------------------
(* Revision "stream": output.go, page.go (first revision), part_000, part_005 *)

\* native Go values handed to output
GoName(s) == [t |-> "goname", v |-> s]           \* name of output.go
GoBuffer(b) == [t |-> "buffer", b |-> b]        \* *bytes.Buffer, b may be NilBuf
GoIndirect(p) == [t |-> "indirect", p |-> p]    \* *indirect
GoRect(r) == [t |-> "rect", v |-> r]            \* *rect
GoPage(p) == [t |-> "page", v |-> p]            \* *page

Buf(b) == [nil |-> FALSE, b |-> b]

\* newRectInt as a plausible bug would have it: corners kept as float32
newRectInt32(llx, lly, urx, ury) ==
    <<IntToFloat(llx, Mant32), IntToFloat(lly, Mant32),
      IntToFloat(urx, Mant32), IntToFloat(ury, Mant32)>>

\* newRectInt: float64(llx), float64(lly), float64(urx), float64(ury)
newRectInt(llx, lly, urx, ury) ==
    <<IntToFloat(llx, Mant64), IntToFloat(lly, Mant64),
      IntToFloat(urx, Mant64), IntToFloat(ury, Mant64)>>

RECURSIVE Concat(_)
Concat(parts) == IF Len(parts) = 0 THEN "" ELSE parts[1] \o Concat(Tail(parts))

RECURSIVE outputPanics(_)
\* output dereferences a nil *bytes.Buffer (t.Bytes()): a runtime panic;
\* it panics with a string at the first key of a map that is not a string
outputPanics(v) ==
    CASE v.t = "buffer" -> v.b.nil
      [] v.t = "slice" -> \E k \in 1..Len(v.v) : outputPanics(v.v[k])
      [] v.t = "map" -> \E k \in 1..Len(v.v) : outputPanics(v.v[k].val)
      [] v.t = "keyed" -> Len(v.v) > 0
      [] OTHER -> FALSE

RECURSIVE outputPanic(_, _)
\* the value of the panic that leaves output(v): the first one met
outputPanic(v, mo) ==
    CASE v.t = "buffer" -> "runtime"
      [] v.t = "keyed" -> "string"
      [] v.t = "slice" ->
            outputPanic(v.v[CHOOSE k \in 1..Len(v.v) :
                                /\ outputPanics(v.v[k])
                                /\ \A j \in 1..(k - 1) : ~outputPanics(v.v[j])], mo)
      [] v.t = "map" ->
            Let(IF mo = "fwd" THEN v.v ELSE Reverse(v.v), LAMBDA ks :
                outputPanic(ks[CHOOSE k \in 1..Len(ks) :
                                   /\ outputPanics(ks[k].val)
                                   /\ \A j \in 1..(k - 1) : ~outputPanics(ks[j].val)].val, mo))

\* indirect.output (part_000): the reference token
indirectOutput(i) == Itoa(i.num) \o " 0 R"

RECURSIVE output(_, _, _)
\* output gives out the PDF representation of v; mo is the order in which
\* reflect.MapKeys hands out the keys of every map of this call
output(v, h, mo) ==
    CASE v.t = "gonil" -> "null"
      [] v.t = "bool" -> IF v.v THEN "true" ELSE "false"
      [] v.t = "int" -> Itoa(v.v)
      [] v.t = "float32" -> Ftoa32(v.v)
      [] v.t = "float" -> Ftoa64(v.v)
      [] v.t = "floatf" -> Ftoa(v.v)
      [] v.t = "string" -> "(" \o v.v \o ")"
      [] v.t = "goname" -> "/" \o v.v
      [] v.t = "bytes" ->
            Join(<<output(GoMap(<<[key |-> "Length", val |-> GoInt(Len(v.v))]>>), h, mo),
                   "stream", v.v, "endstream">>, "\n")
      [] v.t = "buffer" ->
            Join(<<output(GoMap(<<[key |-> "Length", val |-> GoInt(Len(v.b.b))]>>), h, mo),
                   "stream", v.b.b, "endstream">>, "\n")
      [] v.t = "indirect" -> indirectOutput(Deref(h, v.p))
      [] v.t = "rect" -> output(GoSlice([k \in 1..4 |-> GoFloat(v.v[k])]), h, mo)
      [] v.t = "page" ->
            output(GoMap(<<[key |-> "Type", val |-> GoName("Page")],
                           [key |-> "Parent", val |-> GoIndirect(v.v.par)],
                           [key |-> "MediaBox", val |-> GoRect(newRectInt(0, 0, v.v.w, v.v.h))],
                           [key |-> "Resource", val |-> GoMap(<<>>)],
                           [key |-> "Contents",
                            val |-> GoSlice([k \in 1..Len(v.v.con) |-> GoIndirect(v.v.con[k])])]>>),
                   h, mo)
      [] v.t = "slice" ->
            "[ " \o Concat([k \in 1..Len(v.v) |-> output(v.v[k], h, mo) \o " "]) \o "]"
      [] v.t = "map" ->
            LET ks == IF mo = "fwd" THEN v.v ELSE Reverse(v.v)
            IN  "<<\n"
                \o Concat([k \in 1..Len(ks) |->
                              output(GoName(ks[k].key), h, mo) \o " "
                              \o output(ks[k].val, h, mo) \o "\n"])
                \o ">>"
      [] v.t = "keyed" -> "<<\n>>"
      [] OTHER -> "null"

\* reserveIndirect: a new indirect with the next number, not yet written
reserveIndirect(m) ==
    IF m.err # "ok" THEN m
    ELSE LET h1 == Append(m.heap, <<[num |-> Len(m.objs) + 1, off |-> 0]>>)
             p == [a |-> Len(h1), i |-> 1]
         IN  [m EXCEPT !.heap = h1, !.objs = Append(@, p), !.p = p]

\* outputIndirect: i.off = d.off, then header line, value, endobj
outputIndirect(m, p, v) ==
    Let(Then(m, LAMBDA m0 :
             Write([m0 EXCEPT !.heap[p.a][p.i].off = m0.off,
                              !.hist.log = Append(@, [idx |-> Deref(m0.heap, p).num,
                                                      pos |-> Len(m0.out), set |-> TRUE,
                                                      call |-> m0.hist.nfinal])],
                   "objhead", Itoa(Deref(m0.heap, p).num) \o " 0 obj\n")),
        LAMBDA m2 :
    Let(Then(m2, LAMBDA m0 :
             IF outputPanics(v)
             THEN [m0 EXCEPT !.err = outputPanic(v, m0.ord), !.rfail = Len(m0.out)]
             ELSE Write(m0, "objval", output(v, m0.heap, m0.ord))),
        LAMBDA m3 :
    Let(Write(m3, "objend", "\nendobj\n"),
        LAMBDA m4 :
    IF m.err = "ok" /\ m4.err # "ok" THEN [m4 EXCEPT !.hist.bodyFailed = TRUE] ELSE m4)))

\* indirect: reserve and write at once; the pointer is left in m.p
indirect(m, v) ==
    Let(reserveIndirect(m), LAMBDA m1 : [outputIndirect(m1, m1.p, v) EXCEPT !.p = m1.p])

\* savePage ("stream"): writes the content stream, then the page
savePageStream(m) ==
    IF m.err # "ok" \/ m.pg = NilPage THEN m
    ELSE Let(Then(indirect(m, GoBuffer(m.con)),
                  LAMBDA m1 : [m1 EXCEPT !.pg.con = Append(@, m1.p), !.con = NilBuf]),
             LAMBDA m2 :
         Then(indirect(m2, GoPage(m2.pg)),
              LAMBDA m3 : [m3 EXCEPT !.pgs = Append(@, m3.p)]))

\* the page tree of updatePageTree ("stream")
pageTreeMap(m) ==
    GoMap(<<[key |-> "Type", val |-> GoString("Pages")],
            [key |-> "Count", val |-> GoInt(Len(m.pgs))],
            [key |-> "Kids",
             val |-> GoSlice([k \in 1..Len(m.pgs) |-> GoIndirect(m.pgs[k])])]>>)

\* updatePageTree ("stream") as a plausible bug would have it: the page tree
\* is written before the last page is saved
updatePageTreeEarly(m) ==
    savePageStream(outputIndirect(m, m.ptree, pageTreeMap(m)))

\* updatePageTree ("stream")
updatePageTreeStream(m) ==
    Let(savePageStream(m), LAMBDA m1 : outputIndirect(m1, m1.ptree, pageTreeMap(m1)))

\* saveCatalog ("stream")
saveCatalogStream(m) ==
    IF m.err # "ok" \/ m.ptree = NilPtr THEN m
    ELSE outputIndirect(m, m.cat,
                        GoMap(<<[key |-> "Type", val |-> GoString("Catalog")],
                                [key |-> "Pages", val |-> GoIndirect(m.ptree)]>>))

\* writeTrailer ("stream")
writeTrailerStream(m) ==
    IF m.err # "ok" THEN m
    ELSE Write(WriteDropped(
                   Write(Then(Write(m, "trailer", "trailer\n"),
                              LAMBDA m1 : [m1 EXCEPT !.hist.ntrailer = @ + 1]),
                         "trailerdict",
                         output(GoMap(<<[key |-> "Size", val |-> GoInt(Len(m.objs) + 1)],
                                        [key |-> "Root", val |-> GoIndirect(m.cat)]>>),
                                m.heap, m.ord)),
                   "startxref", "\nstartxref\n" \o Itoa(m.xOff) \o "\n"),
               "eof", "%%EOF\n")

\* fmt.Sprint of ints and a string that begins with a space: a space goes
\* between two operands when neither is a string
Sprint(ints, s) == Join([k \in 1..Len(ints) |-> Itoa(ints[k])], " ") \o s

\* the drawing commands of pdf_graphics.go: the string each hands to addc
Command(nm, a) ==
    CASE nm = "LineWidth" -> Sprint(<<a[1]>>, " w")
      [] nm = "LineCapStyle" -> Sprint(<<a[1]>>, " J")
      [] nm = "LineJoinStyle" -> Sprint(<<a[1]>>, " j")
      [] nm = "MoveTo" -> Sprint(<<a[1], a[2]>>, " m")
      [] nm = "LineTo" -> Sprint(<<a[1], a[2]>>, " l")
      [] nm = "Curve" -> Sprint(<<a[1], a[2], a[3], a[4], a[5], a[6]>>, " c")
      [] nm = "CurveV" -> Sprint(<<a[1], a[2], a[3], a[4]>>, " v")
      [] nm = "CurveY" -> Sprint(<<a[1], a[2], a[3], a[4]>>, " y")
      [] nm = "Rectangle" -> Sprint(<<a[1], a[2], a[3], a[4]>>, " re")
      [] nm = "ClosePath" -> "h"
      [] nm = "Stroke" -> "S"
      [] nm = "Fill" -> "f"

\* addc as a plausible bug would have it: the command goes to the sink as
\* well as to the content stream
addcWritten(m, s) ==
    [m EXCEPT !.con = Buf((IF m.con.nil THEN "" ELSE m.con.b) \o s \o "\n"),
              !.out = @ \o s \o "\n", !.off = @ + Len(s) + 1]

\* addc: appends the command and a newline to the current content stream
addc(m, s) ==
    LET b == IF m.con.nil THEN "" ELSE m.con.b
    IN  [m EXCEPT !.con = Buf(b \o s \o "\n")]

-----------------------------------------------------------------------------
(* Public calls *)

\* the deferred function with a recover handling strings only
dontPanicStrings(e) ==
    CASE e = "ok" -> "ok"
      [] e = "string" -> "string"
      [] OTHER -> "escaped"

\* dontPanic, and the deferred function of Save in pdf.go: a panic with a
\* string or with an os.Error (the error of a write, a runtime.Error)
\* becomes the error the call returns; any other value is panicked again
dontPanic(e) ==
    CASE e = "ok" -> "ok"
      [] e = "string" -> "string"
      [] e \in {"io", "runtime"} -> e
      [] OTHER -> "escaped"

\* the calls that defer a recover; write of "old" returns its errors
Recovers(op) == rev = "stream" \/ (rev = "mem" /\ op = "Save")

\* what the caller gets; rfail is the number of bytes the sink held when
\* the serialization of a value panicked in this call, or -1
Result(op, m) ==
    [op |-> op, err |-> IF Recovers(op) THEN dontPanic(m.err) ELSE m.err,
     n |-> m.off, wfail |-> m.fired, rfail |-> m.rfail]

\* the sink refuses writes only in the revisions whose calls report an error
MayFail(plan) ==
    /\ plan.kind # "none" => rev # "old"
    /\ Affordable(plan)

Charge(m) == [m EXCEPT !.hist.cost = @ + Weight(m), !.hist.refused = @ \/ m.fired]

\* the call returns: the document keeps what the call did to it
Return(op, m) == Commit(m) /\ ret' = Result(op, m)

\* bookkeeping of a Save or Close that has run
Final(m) ==
    [m EXCEPT !.hist.nfinal = @ + 1, !.hist.written = @ \/ m.err = "ok",
              !.hist.failed = @ \/ m.err # "ok",
              !.hist.cmds = IF m.err = "ok" THEN <<>> ELSE @]

\* bookkeeping of a NewPage that has run
Paged(m) ==
    [m EXCEPT !.hist.npages = @ + 1, !.hist.failed = @ \/ m.err # "ok",
              !.hist.cmds = IF m.err = "ok" THEN <<>> ELSE @]

\* bookkeeping of a drawing command: issued while a page is the current one
Drawn(m, cmd) == [m EXCEPT !.hist.cmds = IF m.pg = NilPage THEN @ ELSE Append(@, cmd)]

\* New(w) ("old", "mem")
NewMem(wv) ==
    /\ rev \in {"old", "mem"}
    /\ ~born
    /\ Return("New",
          Let(add([Cur(NoPlan) EXCEPT
                      !.w = wv, !.heap = << <<>> >>,
                      !.objs = [a |-> 1, len |-> 0, cap |-> InitCap], !.pgs = <<>>],
                  IF rev = "old" THEN PNull ELSE PNil),
              LAMBDA m1 :
          Let(add([m1 EXCEPT !.cat = m1.p], IF rev = "old" THEN PNull ELSE PNil),
              LAMBDA m2 : [m2 EXCEPT !.ptree = m2.p])))
    /\ born' = TRUE
    /\ UNCHANGED <<rev, ord, dict, arg>>

\* NewPage(w, h) ("old", "mem")
NewPageMem(sz) ==
    /\ rev \in {"old", "mem"}
    /\ born
    /\ Affordable(NoPlan)
    /\ Return("NewPage", Charge(Paged(newPageMem(savePageMem(Cur(NoPlan)), sz))))
    /\ UNCHANGED <<rev, born, ord, dict, arg>>

\* Save() ("old", "mem")
Save(plan) ==
    /\ rev \in {"old", "mem"}
    /\ born
    /\ MayFail(plan)
    /\ Return("Save", Charge(Final(writeAll(saveCatalogMem(updatePageTreeMem(Cur(plan)))))))
    /\ UNCHANGED <<rev, born, ord, dict, arg>>

\* New(w) ("stream")
NewStream(wv, plan) ==
    /\ rev = "stream"
    /\ ~born
    /\ MayFail(plan)
    /\ IF wv = "nil"
       THEN /\ ret' = [op |-> "New", err |-> "string", n |-> 0, wfail |-> FALSE, rfail |-> -1]
            /\ UNCHANGED <<born, heap, objs, w, off, xOff, cat, ptree, pg, pgs, con, out, hist>>
       ELSE /\ Return("New", Charge(
                 Let(reserveIndirect([Cur(plan) EXCEPT !.w = wv, !.objs = <<>>, !.pgs = <<>>]),
                     LAMBDA m1 :
                 Let(reserveIndirect([m1 EXCEPT !.cat = m1.p]),
                     LAMBDA m2 : writeHeader([m2 EXCEPT !.ptree = m2.p, !.off = 0])))))
            /\ born' = TRUE
    /\ UNCHANGED <<rev, ord, dict, arg>>

\* NewPage(w, h) ("stream")
NewPageStream(sz, plan) ==
    /\ rev = "stream"
    /\ born
    /\ MayFail(plan)
    /\ Return("NewPage", Charge(Paged(
          Then(savePageStream(Cur(plan)),
               LAMBDA m1 : [m1 EXCEPT !.pg = newPage(sz, sz, m1.ptree)]))))
    /\ UNCHANGED <<rev, born, ord, dict, arg>>

\* Close() ("stream")
Close(plan) ==
    /\ rev = "stream"
    /\ born
    /\ MayFail(plan)
    /\ Return("Close", Charge(Final(writeTrailerStream(writeRefs(saveCatalogStream(
                           updatePageTreeStream(Cur(plan))))))))
    /\ UNCHANGED <<rev, born, ord, dict, arg>>

\* Stroke, ClosePath: one drawing command ("stream")
Draw(cmd) ==
    /\ rev = "stream"
    /\ born
    /\ Affordable(NoPlan)
    /\ Return("Draw", Charge(Drawn(addc(Cur(NoPlan), cmd), cmd)))
    /\ UNCHANGED <<rev, born, ord, dict, arg>>

\* the calls of the drawing commands under test (SpecDraw)
DrawCalls ==
    {[nm |-> "LineWidth", a |-> <<2>>], [nm |-> "LineCapStyle", a |-> <<1>>],
     [nm |-> "LineJoinStyle", a |-> <<2>>], [nm |-> "MoveTo", a |-> <<0, 0>>],
     [nm |-> "MoveTo", a |-> <<-1, 2>>], [nm |-> "LineTo", a |-> <<10, 3>>],
     [nm |-> "Curve", a |-> <<1, 2, 3, 4, 5, 6>>], [nm |-> "CurveV", a |-> <<1, 2, 3, 4>>],
     [nm |-> "CurveY", a |-> <<1, 2, 3, 4>>], [nm |-> "Rectangle", a |-> <<0, 0, 1, 1>>],
     [nm |-> "ClosePath", a |-> <<>>], [nm |-> "Stroke", a |-> <<>>],
     [nm |-> "Fill", a |-> <<>>]}

\* one of the twelve drawing commands ("stream"), counted against MaxDraws
DrawLine(c) ==
    /\ rev = "stream"
    /\ born
    /\ hist.ndraw < MaxDraws
    /\ Affordable(NoPlan)
    /\ Return("Draw", Charge(Drawn([addc(Cur(NoPlan), Command(c.nm, c.a))
                                       EXCEPT !.hist.ndraw = @ + 1],
                                   Command(c.nm, c.a))))
    /\ UNCHANGED <<rev, born, ord, dict, arg>>

NoHist ==
    [base |-> 0, xpos |-> 0, log |-> <<>>, nxref |-> 0, ntrailer |-> 0, bodyFailed |-> FALSE,
     written |-> FALSE, cost |-> 0, nfinal |-> 0, npages |-> 0, cmds |-> <<>>,
     refused |-> FALSE, failed |-> FALSE, ndraw |-> 0]

\* the zero Document, before New
Blank ==
    /\ born = FALSE
    /\ heap = <<>>
    /\ w = "nil"
    /\ off = 0
    /\ xOff = 0
    /\ cat = NilPtr
    /\ ptree = NilPtr
    /\ pg = NilPage
    /\ pgs = <<>>
    /\ con = NilBuf
    /\ out = ""

Init ==
    /\ rev \in Revs
    /\ ord \in MapOrders
    /\ rev # "stream" => ord = "fwd"
    /\ Blank
    /\ objs = IF rev = "stream" THEN <<>> ELSE [a |-> 0, len |-> 0, cap |-> 0]
    /\ ret = [op |-> "none", err |-> "ok", n |-> 0, wfail |-> FALSE, rfail |-> -1]
    /\ hist = NoHist
    /\ dict = <<>>
    /\ arg = GoNil

Next ==
    \/ \E wv \in {"nil", "sink"} : NewMem(wv)
    \/ \E sz \in PageSizes : NewPageMem(sz)
    \/ \E plan \in Plans \cup {NoPlan} : Save(plan)
    \/ \E wv \in {"nil", "sink"}, plan \in Plans \cup {NoPlan} : NewStream(wv, plan)
    \/ \E sz \in PageSizes, plan \in Plans \cup {NoPlan} : NewPageStream(sz, plan)
    \/ \E plan \in Plans \cup {NoPlan} : Close(plan)
    \/ \E cmd \in Cmds : Draw(cmd)

Spec == Init /\ [][Next]_vars

\* the streaming revision with every drawing command, on a sink that takes
\* every write
InitDraw == Init /\ rev = "stream" /\ ord = "fwd"

NextDraw ==
    \/ NewStream("sink", NoPlan)
    \/ \E sz \in PageSizes : NewPageStream(sz, NoPlan)
    \/ Close(NoPlan)
    \/ \E c \in DrawCalls : DrawLine(c)

SpecDraw == InitDraw /\ [][NextDraw]_vars

-----------------------------------------------------------------------------
(* Many pages: the in-memory revision of pdf.go on a sink that takes every *)
(* write, with enough pages to fill the object list past its capacity.     *)

InitPages ==
    /\ rev = "mem"
    /\ ord = "fwd"
    /\ Blank
    /\ objs = [a |-> 0, len |-> 0, cap |-> 0]
    /\ ret = [op |-> "none", err |-> "ok", n |-> 0, wfail |-> FALSE, rfail |-> -1]
    /\ hist = NoHist
    /\ dict = <<>>
    /\ arg = GoNil

\* NewPage(w, h), counted against MaxPages
NewPageMany(sz) ==
    /\ rev = "mem"
    /\ born
    /\ hist.npages < MaxPages
    /\ Return("NewPage", Paged(newPageMem(savePageMem(Cur(NoPlan)), sz)))
    /\ UNCHANGED <<rev, born, ord, dict, arg>>

\* Save(), counted against MaxSaves
SaveMany ==
    /\ rev = "mem"
    /\ born
    /\ hist.nfinal < MaxSaves
    /\ Return("Save", Final(writeAll(saveCatalogMem(updatePageTreeMem(Cur(NoPlan))))))
    /\ UNCHANGED <<rev, born, ord, dict, arg>>

NextPages ==
    \/ NewMem("sink")
    \/ \E sz \in PageSizes : NewPageMany(sz)
    \/ SaveMany

SpecPages == InitPages /\ [][NextPages]_vars

-----------------------------------------------------------------------------
(* The dictionary under test: a sequence of put calls on one pDict *)

DictKeys == {"Type", "A", "B"}
DictVals == <<GoNil, GoInt(1), GoString("v"), PName("Page")>>

InitDict ==
    /\ rev = "dict"
    /\ ord = "fwd"
    /\ Blank
    /\ objs = <<>>
    /\ ret = [op |-> "none"]
    /\ hist = [nputs |-> 0]
    /\ dict \in {newPDict, newPDictType("Pages")}
    /\ arg = GoNil

\* d.put(k, v)
Put(k, v) ==
    /\ hist.nputs < MaxPuts
    /\ dict' = put(dict, k, v)
    /\ ret' = [op |-> "put", k |-> k, v |-> v]
    /\ hist' = [nputs |-> hist.nputs + 1]
    /\ UNCHANGED <<rev, born, heap, objs, w, off, xOff, cat, ptree, pg, pgs, con, out, ord, arg>>

NextDict == \E k \in DictKeys, n \in 1..Len(DictVals) : Put(k, DictVals[n])

SpecDict == InitDict /\ [][NextDict]_vars

-----------------------------------------------------------------------------
(* The resolvers under test: pobj followed by toBytes (object.go) and      *)
(* output (output.go), each applied once to a native value.  The value is  *)
(* drawn from a list of scalars, nested in slices and maps up to MaxNest.  *)

\* two objects that refer to each other: a page tree and its page
P1 == [a |-> 1, i |-> 1]
P2 == [a |-> 1, i |-> 2]
TestPage == newPage(1, 1, P1)
TestHeap ==
    << <<[obj |-> PDict(<<newPair("Kids", PArray(<<PRef(P2)>>))>>), num |-> 1, off |-> 19],
         [obj |-> pagePObject(TestPage), num |-> 2, off |-> 47]>> >>

\* values of the types pobj names, and of some it does not
PobjScalars ==
    <<GoNil, PNil, GoBool(TRUE), GoBool(FALSE), GoInt(7), GoSized(7), GoFloat32(2),
      GoFloat(3), GoString("s"), GoBytes(""), GoBytes("ab"),
      PNull, PBoolean(TRUE), PName("N"), PNumber(5), PString("p"), PStream("xy"),
      PRef(P1), PRef(P2), GoPageObj(TestPage),
      GoOther("struct"), GoOther("chan"), GoOther("func"), GoOther("ptr"),
      GoKeyed(<<>>), GoKeyed(<<newPair(1, GoInt(1))>>),
      GoSlice(<<>>), GoMap(<<>>), PArray(<<>>), PDict(<<>>)>>

\* values of the types output names, and of some it does not
OutputScalars ==
    <<GoNil, GoBool(TRUE), GoBool(FALSE), GoInt(7), GoSized(7), GoFloat32(2),
      GoFloat(3), GoString("s"), GoName("N"), GoBytes(""), GoBytes("ab"),
      GoBuffer(Buf("")), GoBuffer(Buf("cd")), GoBuffer(NilBuf),
      GoIndirect(P1), GoIndirect(P2), GoRect(newRectInt(0, 0, 1, 1)), GoPage(TestPage),
      GoOther("struct"), GoOther("chan"), GoOther("func"), GoOther("ptr"),
      GoKeyed(<<>>), GoKeyed(<<newPair(1, GoInt(1))>>),
      GoSlice(<<>>), GoMap(<<>>)>>

\* the ways of nesting a value: alone, in a slice, after another element
\* of a slice, and as the first of the two values of a map
Nestings == {"alone", "slice", "second", "map"}

Nest(v, how) ==
    CASE how = "alone" -> v
      [] how = "slice" -> GoSlice(<<v>>)
      [] how = "second" -> GoSlice(<<GoInt(1), v>>)
      [] how = "map" -> GoMap(<<newPair("A", v), newPair("B", GoInt(1))>>)

RECURSIVE Nested(_, _)
\* v nested as the sequence hows says, innermost first
Nested(v, hows) == IF Len(hows) = 0 THEN v ELSE Nested(Nest(v, hows[1]), Tail(hows))

Scalars(fn) == IF fn = "pobj" THEN PobjScalars ELSE OutputScalars

\* the bytes a stream value holds
Payload(v) ==
    CASE v.t \in {"bytes", "stream"} -> v.v
      [] v.t = "buffer" -> v.b.b
      [] OTHER -> ""

\* the pieces handed to append
Pieces == {"", "a", "bc"}

InitResolve ==
    /\ rev = "resolve"
    /\ ord \in MapOrders
    /\ Blank
    /\ objs = <<>>
    /\ dict = <<>>
    /\ \E fn \in {"pobj", "output"} :
          \E k \in 1..Len(Scalars(fn)), hows \in [1..MaxNest -> Nestings] :
             /\ arg = Nested(Scalars(fn)[k], hows)
             /\ hist = [fn |-> fn, napp |-> 0, pay |-> Payload(arg)]
    /\ ret = [op |-> "none", err |-> "ok", val |-> PNull, bytes |-> ""]

\* what a caller of pobj(v).toBytes() gets
pobjResult(v, h) ==
    Let(pobj(v), LAMBDA o :
        IF o.t = "panic"
        THEN [op |-> "pobj", err |-> o.v, val |-> PNull, bytes |-> ""]
        ELSE [op |-> "pobj", err |-> "ok", val |-> o, bytes |-> toBytes(o, h)])

\* what a caller of output(v) gets
outputResult(v, h, mo) ==
    IF outputPanics(v)
    THEN [op |-> "output", err |-> outputPanic(v, mo), val |-> PNull, bytes |-> ""]
    ELSE [op |-> "output", err |-> "ok", val |-> PNull, bytes |-> output(v, h, mo)]

Pobj ==
    /\ rev = "resolve"
    /\ hist.fn = "pobj"
    /\ ret.op = "none"
    /\ ret' = pobjResult(arg, TestHeap)
    /\ UNCHANGED <<rev, born, heap, objs, w, off, xOff, cat, ptree, pg, pgs, con, out, hist,
                   ord, dict, arg>>

Output ==
    /\ rev = "resolve"
    /\ hist.fn = "output"
    /\ ret.op = "none"
    /\ ret' = outputResult(arg, TestHeap, ord)
    /\ UNCHANGED <<rev, born, heap, objs, w, off, xOff, cat, ptree, pg, pgs, con, out, hist,
                   ord, dict, arg>>

\* s.append(b) on the stream under test, before it is resolved
StreamAppend(b) ==
    /\ rev = "resolve"
    /\ ret.op = "none"
    /\ arg.t = "stream"
    /\ hist.napp < MaxAppends
    /\ arg' = pStreamAppend(arg, b)
    /\ hist' = [hist EXCEPT !.napp = @ + 1, !.pay = @ \o b]
    /\ UNCHANGED <<rev, born, heap, objs, w, off, xOff, cat, ptree, pg, pgs, con, out, ret,
                   ord, dict>>

NextResolve ==
    \/ Pobj
    \/ Output
    \/ \E b \in Pieces : StreamAppend(b)

SpecResolve == InitResolve /\ [][NextResolve]_vars

-----------------------------------------------------------------------------
(* One indirect object under test (object.go:617-665): made by             *)
(* newIndirect, given a value, a number and an offset in any order, and    *)
(* rendered as TestIndirect does: toBytes, body, ref.                      *)

\* the values an indirect is made with or set to; the first two are the
\* placeholders newIndirect(nil) and newIndirect(newPNull())
IndirectVals ==
    <<PNil, PNull, PString("ssss"), PNumber(12), PName("N"), PStream("ab"),
      PArray(<<PRef(P1), PNumber(1)>>), PDict(<<newPair("Self", PRef(P1))>>)>>
IndirectNums == {0, 1, 3, 12}
IndirectOffs == {0, 45, 100, 2147483647}

NoRender == [op |-> "none", err |-> "ok", token |-> "", body |-> "", line |-> ""]

InitIndirect ==
    /\ rev = "indirect"
    /\ ord = "fwd"
    /\ born = FALSE
    /\ w = "nil"
    /\ off = 0
    /\ xOff = 0
    /\ cat = NilPtr
    /\ ptree = NilPtr
    /\ pg = NilPage
    /\ pgs = <<>>
    /\ con = NilBuf
    /\ out = ""
    /\ objs = <<>>
    /\ dict = <<>>
    /\ arg = GoNil
    /\ ret = NoRender
    /\ \E k \in 1..Len(IndirectVals) :
          /\ heap = << <<newIndirect(IndirectVals[k])>> >>
          /\ hist = [made |-> IndirectVals[k].t, val |-> IndirectVals[k], num |-> 0,
                     off |-> 0, sets |-> 0]

IndirectFrame ==
    UNCHANGED <<rev, born, objs, w, off, xOff, cat, ptree, pg, pgs, con, out, ord, dict, arg>>

\* i.set(o)
Set(k) ==
    /\ rev = "indirect"
    /\ hist.sets < MaxSets
    /\ heap' = [heap EXCEPT ![1][1] = indirectSet(@, IndirectVals[k])]
    /\ hist' = [hist EXCEPT !.val = IndirectVals[k], !.sets = @ + 1]
    /\ ret' = [NoRender EXCEPT !.op = "set"]
    /\ IndirectFrame

\* i.setNum(n)
SetNum(n) ==
    /\ rev = "indirect"
    /\ heap' = [heap EXCEPT ![1][1] = setNum(@, n)]
    /\ hist' = [hist EXCEPT !.num = n]
    /\ ret' = [NoRender EXCEPT !.op = "setNum"]
    /\ IndirectFrame

\* i.setOffset(o)
SetOffset(o) ==
    /\ rev = "indirect"
    /\ heap' = [heap EXCEPT ![1][1] = setOffset(@, o)]
    /\ hist' = [hist EXCEPT !.off = o]
    /\ ret' = [NoRender EXCEPT !.op = "setOffset"]
    /\ IndirectFrame

\* i.toBytes(), i.body(), i.ref(); body panics on the nil pObject of
\* newIndirect(nil)
Render ==
    /\ rev = "indirect"
    /\ ret' = [op |-> "render",
               err |-> IF heap[1][1].obj = PNil THEN "runtime" ELSE "ok",
               token |-> indirectToBytes(heap[1][1]),
               body |-> IF heap[1][1].obj = PNil THEN "" ELSE body(heap[1][1], heap),
               line |-> ref(heap[1][1])]
    /\ UNCHANGED <<heap, hist>>
    /\ IndirectFrame

NextIndirect ==
    \/ \E k \in 1..Len(IndirectVals) : Set(k)
    \/ \E n \in IndirectNums : SetNum(n)
    \/ \E o \in IndirectOffs : SetOffset(o)
    \/ Render

SpecIndirect == InitIndirect /\ [][NextIndirect]_vars

-----------------------------------------------------------------------------
(* Save(fname) of the file-based revisions: part_003 ("buffered": a         *)
(* bufio.Writer on the file) and part_006 ("direct": the file itself).      *)
(* Bytes are counted, not kept: the file is the number of bytes it holds,   *)
(* and it takes bytes up to a quota, after which its Write fails.           *)

FileRevs == {"buffered", "direct"}
\* bufio.NewWriter: the default size of the buffer
BufSize == 4096
\* bytes of the value of an object
BodySizes == {30, 4090}
\* bytes the file takes before its Write fails
Quotas == {0, 5, 15, 60, 4100, 4200, 1000000}

NoFile == [file |-> "none", flen |-> 0, buffered |-> 0, berr |-> FALSE, ev |-> <<>>,
           nsaves |-> 0]

RECURSIVE BodyLists(_)
\* the sequences of at most n sizes
BodyLists(n) ==
    IF n = 0 THEN {<<>>}
    ELSE BodyLists(n - 1)
         \cup {Append(l, b) : l \in {x \in BodyLists(n - 1) : Len(x) = n - 1}, b \in BodySizes}

InitFile ==
    /\ rev \in FileRevs
    /\ ord = "fwd"
    /\ Blank
    /\ dict = <<>>
    /\ arg = GoNil
    /\ objs \in BodyLists(MaxBodies)
    /\ hist = NoFile
    /\ ret = [op |-> "none", err |-> FALSE, n |-> 0, opened |-> FALSE]

\* the running Save: the document, the file and the buffer, the quota of
\* the file, the bytes nn and the error e of the last Write, and the error
\* err that write() returns
FileCur(q) ==
    [objs |-> objs, off |-> off, xOff |-> xOff, f |-> hist, quota |-> q,
     nn |-> 0, e |-> FALSE, err |-> FALSE, done |-> FALSE]

\* os.File.Write of len bytes
FileWrite(m, len) ==
    IF m.f.file # "open" THEN [m EXCEPT !.nn = 0, !.e = TRUE]
    ELSE Let(Min(len, IF m.quota > m.f.flen THEN m.quota - m.f.flen ELSE 0), LAMBDA acc :
             [m EXCEPT !.f.flen = @ + acc, !.nn = acc, !.e = acc < len])

\* bufio.Writer.Flush: the buffer goes to the file unless an earlier write
\* of the buffer failed; what the file does not take stays in the buffer
Flush(m) ==
    IF m.f.berr \/ m.f.buffered = 0 THEN m
    ELSE Let(FileWrite(m, m.f.buffered), LAMBDA m1 :
             [m1 EXCEPT !.f.buffered = @ - m1.nn, !.f.berr = m1.e])

RECURSIVE BufWrite(_, _, _)
\* bufio.Writer.Write of len bytes, nn of them taken so far: the bytes are
\* copied to the buffer, which is flushed whenever it is full
BufWrite(m, len, nn) ==
    IF m.f.berr THEN [m EXCEPT !.nn = nn, !.e = TRUE]
    ELSE IF len = 0 THEN [m EXCEPT !.nn = nn, !.e = FALSE]
    ELSE IF m.f.buffered = BufSize THEN BufWrite(Flush(m), len, nn)
    ELSE BufWrite([m EXCEPT !.f.buffered = @ + Min(BufSize - @, len)],
                  len - Min(BufSize - m.f.buffered, len),
                  nn + Min(BufSize - m.f.buffered, len))

\* n, err := d.w.Write(b); d.offset += n
WriteCounted(m, len) ==
    Let(IF rev = "buffered" THEN BufWrite(m, len, 0) ELSE FileWrite(m, len), LAMBDA m1 :
        [m1 EXCEPT !.off = @ + m1.nn])

\* a step of write() or of one of its parts: skipped once the part returned
Step(m, F(_)) == IF m.done THEN m ELSE F(m)

\* if err != nil { return }, where err is the result of the function
Check(m) == IF m.e THEN [m EXCEPT !.err = TRUE, !.done = TRUE] ELSE m

\* if err != nil { return } inside a for loop whose n, err := ... declares
\* a new err: the function returns its own err, which is nil
CheckShadowed(m) == IF m.e THEN [m EXCEPT !.done = TRUE] ELSE m

\* writeHeader
fileHeader(m) == Check(WriteCounted(m, Len("%PDF-1.7\n\n")))

RECURSIVE fileBodyFrom(_, _)
\* writeBody of part_003 from the k-th object on
fileBodyFrom(m, k) ==
    IF m.done \/ k > Len(m.objs) THEN m
    ELSE fileBodyFrom(CheckShadowed(WriteCounted(m, Len(Itoa(k - 1) \o " 0 obj\n")
                                                       + m.objs[k] + Len("\nendobj\n"))),
                      k + 1)

RECURSIVE CountedBody(_, _)
\* writeBody of part_006: the bytes counted into d.offset for the objects
\* from the k-th on
CountedBody(bs, k) ==
    IF k > Len(bs) THEN 0
    ELSE Len(Itoa(k - 1) \o " 0 obj\n") + bs[k]
         + Len("endobj\n\n%!(EXTRA int=" \o Itoa(k - 1) \o ", int=0)")
         + CountedBody(bs, k + 1)

\* writeBody: part_003 writes every object and counts what was taken;
\* part_006 counts every object and writes the three parts of the last one
fileBody(m) ==
    IF rev = "buffered" THEN [fileBodyFrom(m, 1) EXCEPT !.done = FALSE]
    ELSE Check(Let(FileWrite(m, IF Len(m.objs) = 0 THEN 0
                                ELSE CountedBody(m.objs, Len(m.objs))),
                   LAMBDA m1 :
                   [m1 EXCEPT !.off = @ + CountedBody(m.objs, 1)]))

RECURSIVE fileRefsFrom(_, _)
\* the loop of writeRefs from the k-th object on
fileRefsFrom(m, k) ==
    IF m.done \/ k > Len(m.objs) THEN m
    ELSE fileRefsFrom(CheckShadowed(WriteCounted(m, IF rev = "buffered" THEN 20 ELSE 18)), k + 1)

\* writeRefs
fileRefs(m) ==
    Let(Check(WriteCounted([m EXCEPT !.xOff = m.off],
                  Len((IF rev = "buffered" THEN "xref\n" ELSE "") \o "0 "
                      \o Itoa(Len(m.objs) + 1) \o "\n"))),
        LAMBDA m1 :
    Let(Step(m1, LAMBDA x : Check(WriteCounted(x, IF rev = "buffered" THEN 20 ELSE 19))),
        LAMBDA m2 : fileRefsFrom(m2, 1)))

\* writeTrailer
fileTrailer(m) ==
    Let(Check(WriteCounted(m, Len("trailer\n"))), LAMBDA m1 :
    Let(Step(m1, LAMBDA x :
             Check(WriteCounted(x, Len("<<\n/Size " \o Itoa(Len(m.objs) + 1) \o "\n/Root (1 0 R)\n>>")))),
        LAMBDA m2 :
        Step(m2, LAMBDA x : Check(WriteCounted(x, Len("%%EOF\n"))))))

\* a part of write(): not run once write() has returned, and write()
\* returns when the part returns an error
Part(m, F(_)) == IF m.err THEN m ELSE [F(m) EXCEPT !.done = FALSE]

\* write(), d.w not nil
fileWrite(m) ==
    Part(Part(Part(Part([m EXCEPT !.off = 0], fileHeader), fileBody), fileRefs), fileTrailer)

Event(m, e) == [m EXCEPT !.f.ev = Append(@, e)]

\* w.Close()
fileClose(m) == Event([m EXCEPT !.f.file = "closed"], "close")

\* the deferred calls of Save as a plausible bug would have them: the file
\* is closed before the buffer is flushed
saveDefersCloseFirst(m) ==
    IF rev = "buffered" THEN Event(Flush(fileClose(m)), "flush") ELSE fileClose(m)

\* the deferred calls of Save, last deferred first: d.w.Flush(), w.Close()
saveDefers(m) ==
    IF rev = "buffered" THEN fileClose(Event(Flush(m), "flush")) ELSE fileClose(m)

\* Save(fname); created is whether os.Create gave a file, q is its quota
SaveFile(created, q) ==
    /\ rev \in FileRevs
    /\ hist.nsaves < MaxFileSaves
    /\ IF ~created
       THEN /\ ret' = [op |-> "Save", err |-> TRUE, n |-> 0, opened |-> FALSE]
            /\ hist' = [hist EXCEPT !.nsaves = @ + 1, !.ev = <<>>]
            /\ UNCHANGED <<w, off, xOff>>
       ELSE Let(fileWrite(Event([FileCur(q) EXCEPT
                                    !.f = [NoFile EXCEPT !.file = "open",
                                                         !.nsaves = hist.nsaves + 1]],
                                "create")),
                LAMBDA m :
                /\ ret' = [op |-> "Save", err |-> m.err, n |-> m.off, opened |-> TRUE]
                /\ hist' = saveDefers(m).f
                /\ w' = "file"
                /\ off' = m.off
                /\ xOff' = m.xOff)
    /\ UNCHANGED <<rev, born, heap, objs, cat, ptree, pg, pgs, con, out, ord, dict, arg>>

NextFile == \E created \in BOOLEAN, q \in Quotas : SaveFile(created, q)

SpecFile == InitFile /\ [][NextFile]_vars

-----------------------------------------------------------------------------
(* The offset field under test: the writer counts the bytes the sink took   *)
(* in d.off, an int, and records d.off in the indirect it is about to write *)
(* (part_005 outputIndirect, pdf.go writeBody); ref() renders the field.    *)

\* bytes the sink has taken when the object under test comes up
StartOffs == {0, 999999990, 2147483601}
\* bytes taken by one write
Chunks == {9, 19, 48}

InitOffset ==
    /\ rev = "offset"
    /\ ord = "fwd"
    /\ born = FALSE
    /\ w = "sink"
    /\ xOff = 0
    /\ cat = NilPtr
    /\ ptree = NilPtr
    /\ pg = NilPage
    /\ pgs = <<>>
    /\ con = NilBuf
    /\ out = ""
    /\ objs = <<>>
    /\ dict = <<>>
    /\ arg = GoNil
    /\ ret = [op |-> "none", line |-> ""]
    /\ hist = [nwrites |-> 0]
    /\ heap = << <<[num |-> 1, off |-> 0]>> >>
    /\ off \in StartOffs

OffsetFrame ==
    UNCHANGED <<rev, born, objs, w, xOff, cat, ptree, pg, pgs, con, out, ord, dict, arg>>

\* n, err := d.w.Write(b); d.off += n
Wrote(n) ==
    /\ rev = "offset"
    /\ hist.nwrites < MaxWrites
    /\ off' = AddInt(off, n)
    /\ hist' = [hist EXCEPT !.nwrites = @ + 1]
    /\ ret' = [op |-> "write", line |-> ""]
    /\ UNCHANGED heap
    /\ OffsetFrame

\* i.off = d.off
RecordOffset ==
    /\ rev = "offset"
    /\ heap' = [heap EXCEPT ![1][1].off = off]
    /\ ret' = [op |-> "record", line |-> ""]
    /\ UNCHANGED <<off, hist>>
    /\ OffsetFrame

\* i.ref()
RefLine ==
    /\ rev = "offset"
    /\ ret' = [op |-> "ref", line |-> ref(heap[1][1])]
    /\ UNCHANGED <<off, hist, heap>>
    /\ OffsetFrame

NextOffset ==
    \/ \E n \in Chunks : Wrote(n)
    \/ RecordOffset
    \/ RefLine

SpecOffset == InitOffset /\ [][NextOffset]_vars

-----------------------------------------------------------------------------
(* Numbers under test: the rectangle made of four ints (rect.go) and the   *)
(* float64 written by pNumber.toBytes (object.go) and by output            *)
(* (output.go).                                                            *)

\* ints over the range of int: small ones, the first ones a float32 cannot
\* hold, and ones next to the largest
Ints == {0, 1, -1, 2, -10, 16777217, -16777217, 2147483583, -2147483583}
Corners == {-2, 16777219}

NoBytes == [op |-> "none", bytes |-> "", want |-> ""]

InitNumber ==
    /\ rev = "number"
    /\ ord = "fwd"
    /\ Blank
    /\ objs = <<>>
    /\ dict = <<>>
    /\ hist = <<>>
    /\ ret = NoBytes
    /\ \/ \E a \in Ints, b \in Ints, c \in Corners, d \in Corners :
             arg = [t |-> "ints", v |-> <<a, b, c, d>>]
       \/ \E neg \in BOOLEAN, n \in 0..MaxNum, k \in 0..MaxFrac :
             /\ k = 0 \/ n % 2 = 1
             /\ arg = GoFloatF([neg |-> neg, n |-> n, k |-> k])

NumberFrame ==
    UNCHANGED <<rev, born, heap, objs, w, off, xOff, cat, ptree, pg, pgs, con, out, hist,
                ord, dict, arg>>

\* newRectInt(a, b, c, d).output(), and output([]int{a, b, c, d}) next to it
RectOutput ==
    /\ rev = "number"
    /\ arg.t = "ints"
    /\ ret.op = "none"
    /\ ret' = [op |-> "rect",
               bytes |-> output(GoRect(newRectInt(arg.v[1], arg.v[2], arg.v[3], arg.v[4])),
                                <<>>, ord),
               want |-> output(GoSlice([k \in 1..4 |-> GoInt(arg.v[k])]), <<>>, ord)]
    /\ NumberFrame

\* newPNumber(v).toBytes()
NumberToBytes ==
    /\ rev = "number"
    /\ arg.t = "floatf"
    /\ ret.op = "none"
    /\ ret' = [op |-> "toBytes", bytes |-> toBytes(pobj(arg), <<>>), want |-> ""]
    /\ NumberFrame

\* output(v) of a float64
NumberOutput ==
    /\ rev = "number"
    /\ arg.t = "floatf"
    /\ ret.op = "none"
    /\ ret' = [op |-> "output", bytes |-> output(arg, <<>>, ord), want |-> ""]
    /\ NumberFrame

NextNumber == RectOutput \/ NumberToBytes \/ NumberOutput

SpecNumber == InitNumber /\ [][NextNumber]_vars

-----------------------------------------------------------------------------
(* Properties *)

\* the registered objects, in registration order
Objs == ObjsOf([heap |-> heap, objs |-> objs])
NumObjs == NObjs([objs |-> objs])

Finished == ret.op \in {"Save", "Close"} /\ ret.err = "ok"

Digit(c) == CHOOSE d \in 0..9 : ToString(d) = c

RECURSIVE Atoi(_)
Atoi(s) ==
    IF Len(s) = 0 THEN 0
    ELSE 10 * Atoi(SubSeq(s, 1, Len(s) - 1)) + Digit(SubSeq(s, Len(s), Len(s)))

\* the bytes of the current output pass: d.off counts from its first byte
Pass == SubSeq(out, hist.base + 1, Len(out))

\* the k-th line of the last xref table, after "xref\n0 <count>\n" and the free entry
XrefLine(k) ==
    LET start == xOff + Len("xref\n0 " \o Itoa(NumObjs + 1) \o "\n") + 20 * k
    IN  SubSeq(Pass, start + 1, Min(start + 20, Len(Pass)))

\* the header "<n> 0 obj" begins at byte offset o of the output
HeaderAt(o, n) ==
    LET hd == Itoa(n) \o " 0 obj"
    IN  o + Len(hd) <= Len(Pass) /\ SubSeq(Pass, o + 1, o + Len(hd)) = hd

\* C1: after a write that completed without error, the xref line of every
\* registered object, taken in object order, carries the byte offset at which
\* that object's "<n> 0 obj" header begins.
XrefConsistent ==
    Finished =>
        \A k \in 1..NumObjs :
            /\ Len(XrefLine(k)) = 20
            /\ SubSeq(XrefLine(k), 11, 20) = " 00000 n\r\n"
            /\ HeaderAt(Atoi(SubSeq(XrefLine(k), 1, 10)), Objs[k].num)

\* the body emissions of the last Save
LastPass == {i \in DOMAIN hist.log : hist.log[i].call = hist.nfinal - 1}

\* the bytes written for the object with index k by the emission i
Emitted(i, b) ==
    /\ hist.log[i].pos + Len(b) <= Len(out)
    /\ SubSeq(out, hist.log[i].pos + 1, hist.log[i].pos + Len(b)) = b

\* C2: after a Save whose sink took every write, the bodies of the catalog
\* and of the page tree in the output are the values last set through the
\* handles d.cat and d.ptree that Document.add returned.
StableHandle ==
    (rev \in {"old", "mem"} /\ ret.op = "Save" /\ w = "sink" /\ ~ret.wfail) =>
        \A p \in {cat, ptree} :
            \E i \in LastPass : Emitted(i, body(Deref(heap, p), heap))

\* C3: the k-th registered object has number k.
NumberedFromOne == \A k \in 1..NumObjs : Objs[k].num = k

ByteAccounting == born => off = Len(Pass)

\* C6: a call in which the sink refused a write returns a non-nil error.
FailurePropagates == ret.wfail => ret.err # "ok"

\* C7: once the write of an object's body has failed, no later call writes
\* a cross-reference table or a trailer.
FailedIsTerminal ==
    [][hist.bodyFailed =>
          (hist.nxref' = hist.nxref /\ hist.ntrailer' = hist.ntrailer)]_vars

\* C8: after Save/Close has returned successfully, no later call registers
\* an object, adds a page to the page list or writes to the sink.
WrittenIsTerminal ==
    [][hist.written => (NumObjs' = NumObjs /\ pgs' = pgs /\ out' = out)]_vars

\* how many times the offset of the object with index k has been assigned
SetCount(k) == Cardinality({i \in DOMAIN hist.log : hist.log[i].idx = k /\ hist.log[i].set})

RegIndex(k) == IF rev = "old" THEN k ELSE Objs[k].num

\* C9: the offset of every registered object is assigned exactly once: never
\* twice, and once by the time a write has completed.
OffsetAssignedOnce ==
    /\ \A k \in 1..NumObjs : SetCount(RegIndex(k)) <= 1
    /\ Finished => \A k \in 1..NumObjs : SetCount(RegIndex(k)) = 1

KeysUnique(d) == \A i, j \in 1..Len(d) : d[i].key = d[j].key => i = j

\* C10: put keeps the keys unique; on a key that exists it leaves the number
\* of entries and every key's position unchanged and replaces that key's
\* value, on a new key it appends exactly one entry and leaves the rest.
PutIsUpsert ==
    [][ret'.op = "put" =>
          LET k == ret'.k
              v == pobj(ret'.v)
          IN  /\ KeysUnique(dict')
              /\ IF \E i \in 1..Len(dict) : dict[i].key = k
                 THEN /\ Len(dict') = Len(dict)
                      /\ \A i \in 1..Len(dict) :
                            /\ dict'[i].key = dict[i].key
                            /\ dict'[i].val = IF dict[i].key = k THEN v ELSE dict[i].val
                 ELSE /\ Len(dict') = Len(dict) + 1
                      /\ SubSeq(dict', 1, Len(dict)) = dict
                      /\ dict'[Len(dict')] = [key |-> k, val |-> v]]_vars

\* C10 witness: a key that was in the dictionary has been put again with
\* another value, and the dictionary holds two entries.
PutIsUpsertWitness ==
    /\ rev = "dict"
    /\ ret.op = "put"
    /\ Len(dict) = 2
    /\ hist.nputs = 3
    /\ dict[1].key = ret.k
    /\ dict[1].val = pobj(ret.v)

-----------------------------------------------------------------------------
(* Properties of the resolvers *)

\* sub occurs in s
Contains(s, sub) ==
    \E k \in 1..(Len(s) - Len(sub) + 1) : SubSeq(s, k, k + Len(sub) - 1) = sub

RECURSIVE Embeds(_, _)
\* the value v holds the indirect object p: directly, as an element, as the
\* value of a key, as the parent of a page or as one of its contents
Embeds(v, p) ==
    CASE v.t = "ref" -> v.p = p
      [] v.t = "indirect" -> v.p = p
      [] v.t = "slice" -> \E k \in 1..Len(v.v) : Embeds(v.v[k], p)
      [] v.t = "array" -> \E k \in 1..Len(v.v) : Embeds(v.v[k], p)
      [] v.t = "map" -> \E k \in 1..Len(v.v) : Embeds(v.v[k].val, p)
      [] v.t = "dict" -> \E k \in 1..Len(v.v) : Embeds(v.v[k].val, p)
      [] v.t = "pageobj" -> v.v.par = p
      [] v.t = "page" -> v.v.par = p \/ \E k \in 1..Len(v.v.con) : v.v.con[k] = p
      [] OTHER -> FALSE

Resolved == rev = "resolve" /\ ret.op # "none"

\* C11: a value that embeds an indirect object serializes with the token
\* "n 0 R" of that object, and with neither the head "n 0 obj" or the tail
\* "endobj" of its body nor the bytes of the value it wraps; the two objects
\* under test refer to each other and still serialize.
ReferenceNotBody ==
    (Resolved /\ ret.err = "ok") =>
        \A k \in 1..Len(TestHeap[1]) :
            Embeds(arg, [a |-> 1, i |-> k]) =>
                /\ Contains(ret.bytes, Itoa(k) \o " 0 R")
                /\ ~Contains(ret.bytes, Itoa(k) \o " 0 obj")
                /\ ~Contains(ret.bytes, "endobj")
                /\ ~Contains(ret.bytes, toBytes(TestHeap[1][k].obj, TestHeap))

\* C11 witness: the page, whose wrapped dictionary names its parent, has
\* been resolved as the value of a key of a map inside a slice.
ReferenceNotBodyWitness ==
    /\ Resolved
    /\ ret.op = "pobj"
    /\ ret.err = "ok"
    /\ arg.t = "slice"
    /\ Len(arg.v) = 1
    /\ arg.v[1].t = "map"
    /\ Len(arg.v[1].v) = 2
    /\ arg.v[1].v[1].val.t = "ref"
    /\ arg.v[1].v[1].val.p = P2
    /\ Contains(ret.bytes, "/A 2 0 R")

\* the value is of a type no case of the resolvers names: a struct, a
\* channel, a function, a pointer to a type that is not a Value
Unsupported(v) == v.t = "other"

\* C12: resolving a value of an unsupported type fails; it never yields the
\* bytes of a Value such as null.
UnsupportedFails ==
    (Resolved /\ Unsupported(arg)) => ret.err # "ok"

RECURSIVE Documented(_)
\* the value is in the domain the resolvers are documented for
Documented(v) ==
    CASE v.t \in {"gonil", "bool", "int", "sized", "float32", "float", "string", "bytes"} -> TRUE
      [] v.t \in PObjectTags -> TRUE
      [] v.t = "slice" -> \A k \in 1..Len(v.v) : Documented(v.v[k])
      [] v.t = "map" -> \A k \in 1..Len(v.v) : Documented(v.v[k].val)
      [] OTHER -> FALSE

RECURSIVE Expected(_, _)
\* the Value the documented mapping gives for v, the entries of a
\* dictionary in the order mo
Expected(v, mo) ==
    CASE v.t = "gonil" -> PNull
      [] v.t = "bool" -> PBoolean(v.v)
      [] v.t \in {"int", "sized", "float32", "float"} -> PNumber(v.v)
      [] v.t = "string" -> PString(v.v)
      [] v.t = "bytes" -> PStream(v.v)
      [] v.t \in PObjectTags -> v
      [] v.t = "slice" -> PArray([k \in 1..Len(v.v) |-> Expected(v.v[k], mo)])
      [] v.t = "map" ->
            PDict([k \in 1..Len(v.v) |->
                      Let(IF mo = "fwd" THEN v.v[k] ELSE v.v[Len(v.v) + 1 - k], LAMBDA e :
                          newPair(e.key, Expected(e.val, mo)))])

RECURSIVE Same(_, _)
\* a and b are the same Value
Same(a, b) ==
    /\ a.t = b.t
    /\ CASE a.t \in {"pbool", "num", "numf", "str", "name", "stream"} -> a.v = b.v
         [] a.t = "ref" -> a.p = b.p
         [] a.t = "array" ->
               /\ Len(a.v) = Len(b.v)
               /\ \A k \in 1..Len(a.v) : Same(a.v[k], b.v[k])
         [] a.t = "dict" ->
               /\ Len(a.v) = Len(b.v)
               /\ \A k \in 1..Len(a.v) :
                     a.v[k].key = b.v[k].key /\ Same(a.v[k].val, b.v[k].val)
         [] OTHER -> TRUE

\* C13: on every value of the documented domain the resolver succeeds and
\* gives nil -> Null, bool -> Boolean, an integer of any width or a float ->
\* Number of that value, string -> String, bytes -> Stream, a Value ->
\* itself, a sequence -> Array of its resolved elements in order, a
\* string-keyed map -> Dictionary of its resolved values; output gives the
\* bytes of that Value.
ResolverMapping ==
    (Resolved /\ Documented(arg)) =>
        /\ ret.err = "ok"
        /\ \E mo \in MapOrders :
              IF ret.op = "pobj" THEN Same(ret.val, Expected(arg, mo))
              ELSE ret.bytes = toBytes(Expected(arg, mo), TestHeap)

-----------------------------------------------------------------------------
(* Properties of the calls, continued *)

\* C14: when the serialization of a value panics inside NewPage, Save or
\* Close, the call returns an error that is not nil: the panic does not
\* leave the call, and nothing is written after it.
ResolverFailureSurfaces ==
    (ret.op \in {"NewPage", "Save", "Close"} /\ ret.rfail >= 0) =>
        /\ ret.err \notin {"ok", "escaped"}
        /\ Len(out) = ret.rfail

\* C14 witness: NewPage has failed while the content of the page was being
\* written, after the header line of the object went out.
ResolverFailureSurfacesWitness ==
    /\ rev = "stream"
    /\ ret.op = "NewPage"
    /\ ret.rfail >= 0
    /\ ~ret.wfail
    /\ ret.err = "runtime"
    /\ hist.npages >= 2

\* the content stream of the commands cmds: one command per line
Lines(cmds) == Concat([k \in 1..Len(cmds) |-> cmds[k] \o "\n"])

\* C15: the content stream saved with a page holds exactly the commands
\* issued while that page was the current one, in call order and one per
\* line.
PerPageContent ==
    [][(rev = "stream" /\ ret'.op \in {"NewPage", "Close"} /\ Len(pgs') = Len(pgs) + 1) =>
          /\ ~con.nil
          /\ con.b = Lines(hist.cmds)]_vars

\* C16: a stream renders as the dictionary with the one entry Length, the
\* number of bytes of its payload, then "stream\n", the payload as it is,
\* and "\nendstream"; the payload is what the stream was made of followed
\* by every piece appended to it, and may be empty.
StreamLength ==
    (Resolved /\ ret.err = "ok" /\ arg.t \in {"bytes", "stream", "buffer"}) =>
        ret.bytes = "<<\n/Length " \o Itoa(Len(hist.pay)) \o "\n>>\nstream\n"
                    \o hist.pay \o "\nendstream"

\* C16 witness: a stream grown by two appends has been rendered.
StreamLengthWitness ==
    /\ Resolved
    /\ ret.err = "ok"
    /\ arg.t = "stream"
    /\ hist.napp = 2
    /\ hist.pay = "xyabc"
    /\ ret.bytes = "<<\n/Length 5\n>>\nstream\nxyabc\nendstream"

\* the empty payload has been rendered by both resolvers
StreamLengthEmpty ==
    /\ Resolved
    /\ arg.t = "bytes"
    /\ hist.pay = ""
    /\ ret.bytes = "<<\n/Length 0\n>>\nstream\n\nendstream"

\* the output from the first byte of the last cross-reference table on
XrefOn == SubSeq(out, hist.xpos + 1, Len(out))

\* the head of a table of n entries: the subsection header and the free entry
XrefHead(n) == "xref\n0 " \o Itoa(n) \o "\n" \o "0000000000 65535 f\r\n"

\* the j-th line after the free entry is the line of an object in use
InUseLine(t, n, j) ==
    Let(Len(XrefHead(n)) + 20 * (j - 1), LAMBDA at :
        /\ at + 20 <= Len(t)
        /\ \A c \in 1..10 : \E d \in 0..9 : SubSeq(t, at + c, at + c) = ToString(d)
        /\ SubSeq(t, at + 11, at + 20) = " 00000 n\r\n")

\* what follows the lines of the table of n entries
AfterXref(t, n) == SubSeq(t, Len(XrefHead(n)) + 20 * (n - 1) + 1, Len(t))

\* C17: after a write that succeeded, of a document with k registered
\* objects, the table begins "xref", "0 k+1" and the free entry, holds one
\* line for each of the k objects and no more, and the trailer dictionary
\* that follows has Size k+1 and Root the reference of the catalog, the
\* first registered object.
TrailerCounts ==
    (Finished /\ ~ret.wfail) =>
        /\ Prefix(XrefOn, Len(XrefHead(NumObjs + 1))) = XrefHead(NumObjs + 1)
        /\ \A j \in 1..NumObjs : InUseLine(XrefOn, NumObjs + 1, j)
        /\ Prefix(AfterXref(XrefOn, NumObjs + 1), 8) = "trailer\n"
        /\ Contains(AfterXref(XrefOn, NumObjs + 1), "/Size " \o Itoa(NumObjs + 1) \o "\n")
        /\ Deref(heap, cat).num = Objs[1].num
        /\ Contains(AfterXref(XrefOn, NumObjs + 1),
                    "/Root " \o Itoa(Objs[1].num) \o " 0 R\n")

\* C18: after a write that succeeded, the number after the keyword
\* startxref is the byte offset, in this output, at which the keyword xref
\* of the table begins: the value d.off had before the table was written
\* (pdf.go and part_005; the writer of part_004 writes no startxref).
StartxrefOffset ==
    (Finished /\ ~ret.wfail /\ rev \in {"mem", "stream"}) =>
        /\ xOff = hist.xpos - hist.base
        /\ Contains(XrefOn, "startxref\n" \o Itoa(hist.xpos - hist.base) \o "\n%%EOF\n")

\* C19: serializing the same value twice gives the same bytes: the bytes do
\* not depend on the order in which the keys of a native map are handed
\* out.
OutputDeterminism ==
    (Resolved /\ ret.err = "ok") =>
        \A mo \in MapOrders :
            ret.bytes = IF ret.op = "pobj" THEN toBytes(pobjOrd(arg, mo), TestHeap)
                        ELSE output(arg, TestHeap, mo)

-----------------------------------------------------------------------------
(* Properties of the indirect object *)

\* C20: the indirect keeps the number and the offset it was last given,
\* whatever is set as its value; with a Value v wrapped, number n and
\* offset o it renders the token "n 0 R", the body "n 0 obj\n", the bytes
\* of v, "\nendobj\n", and the line of o in ten digits and " 00000 n\r\n",
\* whether v came with newIndirect or with a later set.
IndirectRenderings ==
    rev = "indirect" =>
        /\ heap[1][1].num = hist.num
        /\ heap[1][1].off = hist.off
        /\ (ret.op = "render" /\ hist.val.t # "nil") =>
              /\ ret.err = "ok"
              /\ ret.token = Itoa(hist.num) \o " 0 R"
              /\ ret.body = Itoa(hist.num) \o " 0 obj\n" \o toBytes(hist.val, heap)
                            \o "\nendobj\n"
              /\ Len(ret.line) = 20
              /\ Atoi(SubSeq(ret.line, 1, 10)) = hist.off
              /\ SubSeq(ret.line, 11, 20) = " 00000 n\r\n"

\* C20 witness: a placeholder made of nil, numbered 3 and placed at 45, then
\* set to a string, has been rendered.
IndirectRenderingsWitness ==
    /\ rev = "indirect"
    /\ ret.op = "render"
    /\ hist.made = "nil"
    /\ hist.sets = 1
    /\ hist.val.t = "str"
    /\ ret.token = "3 0 R"
    /\ ret.body = "3 0 obj\n(ssss)\nendobj\n"
    /\ ret.line = "0000000045 00000 n\r\n"

-----------------------------------------------------------------------------
(* Properties of the numbers *)

\* C21: the rectangle made of four ints renders as the slice of the same
\* four ints does: each corner as its decimal integer, without a point.
RectFromInts ==
    (rev = "number" /\ ret.op = "rect") =>
        /\ ret.bytes = ret.want
        /\ ~Contains(ret.bytes, ".")

\* C21 witness: a rectangle with a corner that a float32 cannot hold and a
\* negative corner next to the least int has been rendered.
RectFromIntsWitness ==
    /\ rev = "number"
    /\ ret.op = "rect"
    /\ arg.v = <<-2147483583, 16777217, 16777219, -2>>
    /\ ret.bytes = "[ -2147483583 16777217 16777219 -2 ]"

-----------------------------------------------------------------------------
(* Properties of the collections *)

RECURSIVE Rendering(_, _)
\* the bytes of v by the rules for collections: an array is "[", its
\* elements and "]" with single spaces between, a dictionary is "<<\n", a
\* line "/key value\n" for each entry in the order the entries were given,
\* and ">>"; whatever is not a collection renders as fn renders it alone
Rendering(v, fn) ==
    CASE v.t \in {"slice", "array"} ->
            IF Len(v.v) = 0 THEN "[ ]"
            ELSE "[ " \o Join([k \in 1..Len(v.v) |-> Rendering(v.v[k], fn)], " ") \o " ]"
      [] v.t \in {"map", "dict"} ->
            "<<\n"
            \o Concat([k \in 1..Len(v.v) |->
                          "/" \o v.v[k].key \o " " \o Rendering(v.v[k].val, fn) \o "\n"])
            \o ">>"
      [] OTHER -> IF fn = "pobj" THEN toBytes(pobjOrd(v, "fwd"), TestHeap)
                  ELSE output(v, TestHeap, "fwd")

\* a slice, an array, a string-keyed map or a dictionary
Collection(v) == v.t \in {"slice", "array", "map", "dict"}

\* C22: an array renders as "[ ", its elements joined by single spaces, and
\* " ]", the empty one as "[ ]"; a dictionary renders as "<<\n", a line
\* "/key value\n" for each entry in insertion order, and ">>", the empty one
\* as "<<\n>>"; collections inside collections render by the same rules.
CollectionRendering ==
    (Resolved /\ ret.err = "ok" /\ Collection(arg)) => ret.bytes = Rendering(arg, hist.fn)

\* the same rules hold of every call in which the maps hand out their keys
\* in the order the entries were given
CollectionRenderingFwd ==
    (Resolved /\ ret.err = "ok" /\ Collection(arg) /\ ord = "fwd") =>
        ret.bytes = Rendering(arg, hist.fn)

-----------------------------------------------------------------------------
(* Properties of the sink *)

\* C23: a Save on a document whose writer is nil, and a New(nil) of the
\* streaming revision, return an error that is not nil, report 0 bytes and
\* write nothing.
UninitializedSink ==
    (rev \in Revs /\ w = "nil" /\ ret.op \in {"New", "Save"} /\ (ret.op = "New" => rev = "stream")) =>
        /\ ret.err \notin {"ok", "escaped"}
        /\ ret.n = 0
        /\ out = ""

\* C23 witness: a document made with a nil writer was given a page and a
\* second one, and Save has returned the error and 0.
UninitializedSinkWitness ==
    /\ rev = "mem"
    /\ w = "nil"
    /\ Len(pgs) = 2
    /\ ret.op = "Save"
    /\ ret.err = "string"
    /\ ret.n = 0
    /\ out = ""

\* the same of New(nil) in the streaming revision: no document is made
UninitializedSinkNew ==
    /\ rev = "stream"
    /\ ~born
    /\ ret.op = "New"
    /\ ret.err = "string"

-----------------------------------------------------------------------------
(* Properties of the numbers, continued *)

\* the place of the point in s, or one past its end
RECURSIVE PointAt(_, _)
PointAt(s, k) == IF k > Len(s) \/ SubSeq(s, k, k) = "." THEN k ELSE PointAt(s, k + 1)

\* the float that is num / 10^j, or no float when a float cannot hold it
Decimal(neg, num, j) ==
    IF num % Pow(5, j) # 0 THEN [neg |-> neg, n |-> -1, k |-> 0]
    ELSE Norm([neg |-> neg, n |-> num \div Pow(5, j), k |-> j])

\* the float that digits with at most one point write
Unsigned(neg, s) ==
    Decimal(neg,
            Atoi(SubSeq(s, 1, PointAt(s, 1) - 1) \o SubSeq(s, PointAt(s, 1) + 1, Len(s))),
            IF PointAt(s, 1) > Len(s) THEN 0 ELSE Len(s) - PointAt(s, 1))

\* the float a rendered number parses to
Atof(s) ==
    IF SubSeq(s, 1, 1) = "-" THEN Unsigned(TRUE, SubSeq(s, 2, Len(s))) ELSE Unsigned(FALSE, s)

NumberRoundTripIntegral ==
    /\ rev = "number"
    /\ ret.op = "output"
    /\ arg.v = [neg |-> FALSE, n |-> 40, k |-> 0]
    /\ ret.bytes = "40"

-----------------------------------------------------------------------------
(* Properties of the page tree *)

\* the number of the k-th page of d.pgs, and the reference token of the page tree
PageNum(k) == Deref(heap, pgs[k]).num
TreeRef == Itoa(Deref(heap, ptree).num) \o " 0 R"

\* the bytes of the emission i: up to the next emission or the end of the output
BodyOf(i) ==
    SubSeq(out, hist.log[i].pos + 1,
           IF i < Len(hist.log) THEN hist.log[i + 1].pos ELSE Len(out))

\* the output holds the page object with number n: a dictionary of type Page
\* whose Parent is the page tree
PageWritten(n) ==
    \E i \in DOMAIN hist.log :
        /\ Emitted(i, Itoa(n) \o " 0 obj\n<<\n")
        /\ Contains(BodyOf(i), "/Type /Page\n")
        /\ Contains(BodyOf(i), "/Parent " \o TreeRef \o "\n")

\* the output holds the page tree: Count is p and Kids are the tokens of the
\* pages of d.pgs in their order
TreeWritten(p) ==
    \E i \in DOMAIN hist.log :
        /\ Emitted(i, Itoa(Deref(heap, ptree).num) \o " 0 obj\n<<\n")
        /\ Contains(BodyOf(i), "/Count " \o Itoa(p) \o "\n")
        /\ Contains(BodyOf(i),
                    "/Kids [ " \o Concat([k \in 1..Len(pgs) |-> Itoa(PageNum(k)) \o " 0 R "])
                    \o "]\n")

\* C25: after the first Save or Close of a document on which NewPage was
\* called p times, the page tree written has Count p and Kids of p
\* reference tokens in page-creation order, each the number of a distinct
\* registered page object whose Parent is the token of the page tree.
PageTreeContents ==
    (rev \in {"mem", "stream"} /\ w = "sink" /\ ~hist.refused
     /\ hist.nfinal = 1 /\ ret.op \in {"Save", "Close"}) =>
        /\ Len(pgs) = hist.npages
        /\ TreeWritten(hist.npages)
        /\ \A k \in 1..Len(pgs) :
              /\ PageNum(k) \in {Objs[j].num : j \in 1..NumObjs}
              /\ PageWritten(PageNum(k))
              /\ \A j \in 1..(k - 1) : PageNum(j) < PageNum(k)

\* the same of the documents none of whose calls has returned an error: it
\* holds of them, reached here with two pages in either revision
PageTreeContentsClean == hist.failed \/ PageTreeContents

-----------------------------------------------------------------------------
(* Properties of the offset field *)

\* C26: the line ref() gives for an object is 20 bytes, ten digits of the
\* offset, " 00000 n" and CR LF, for every offset the writer records in the
\* field.
FixedWidthLines ==
    (rev = "offset" /\ ret.op = "ref") =>
        /\ Len(ret.line) = 20
        /\ SubSeq(ret.line, 11, 20) = " 00000 n\r\n"
        /\ \A k \in 1..10 : \E d \in 0..9 : SubSeq(ret.line, k, k) = ToString(d)

\* the same of the offsets up to the largest int: it holds of them, reached
\* here with the offset 2147483629
FixedWidthLinesInRange ==
    (rev = "offset" /\ heap[1][1].off >= 0) => FixedWidthLines

-----------------------------------------------------------------------------
(* Properties of Save(fname) *)

\* C27: when Save(fname) returns after the file was opened, the buffered
\* writer has been flushed and then the file closed, in that order and once
\* each, whether write() returned an error or not: nothing the file would
\* have taken is left in the buffer, and the closed file holds every byte
\* the buffered writer took unless the file refused one.
SinkRelease ==
    (rev \in FileRevs /\ ret.op = "Save" /\ ret.opened) =>
        /\ hist.file = "closed"
        /\ hist.ev = IF rev = "buffered" THEN <<"create", "flush", "close">>
                     ELSE <<"create", "close">>
        /\ hist.buffered > 0 => hist.berr
        /\ (rev = "buffered" /\ ~hist.berr) => hist.flen = ret.n

\* C27 witness: a Save whose file refused a write of the body has returned
\* the error of the cross-reference table, with the file flushed and closed.
SinkReleaseWitness ==
    /\ rev = "buffered"
    /\ ret.op = "Save"
    /\ ret.opened
    /\ ret.err
    /\ Len(objs) = 2
    /\ hist.flen = 4100
    /\ hist.file = "closed"

\* a Save without an error has left every byte it counted in the closed file
SinkReleaseWritten ==
    /\ rev = "buffered"
    /\ ret.op = "Save"
    /\ ~ret.err
    /\ Len(objs) = 1
    /\ hist.flen = ret.n
    /\ hist.flen > 0
    /\ hist.file = "closed"

-----------------------------------------------------------------------------
(* Properties of the pages of the streaming revision *)

\* C28: a page on which nothing was drawn is saved by the NewPage or Close
\* that follows it: the call returns nil, and the page is written with a
\* content stream and is listed among the pages.
EmptyPageSaved ==
    [][(/\ rev = "stream"
        /\ pg # NilPage
        /\ con = NilBuf
        /\ ret'.op \in {"NewPage", "Close"}
        /\ hist'.npages + hist'.nfinal = hist.npages + hist.nfinal + 1
        /\ ~ret'.wfail)
       => (/\ ret'.err = "ok"
           /\ Len(pgs') = Len(pgs) + 1
           /\ Contains(SubSeq(out', Len(out) + 1, Len(out')), "/Length 0\n")
           /\ Contains(SubSeq(out', Len(out) + 1, Len(out')), "/Type /Page\n"))]_vars

\* C29: the catalog and the page tree written by Save or Close carry their
\* Type as a name, "/Type /Catalog" and "/Type /Pages", and no Type in the
\* output is a string in parentheses.
TypeEntriesAreNames ==
    (rev \in {"mem", "stream"} /\ Finished) =>
        /\ Contains(out, "/Type /Catalog\n")
        /\ Contains(out, "/Type /Pages\n")
        /\ ~Contains(out, "/Type (")

\* the same of the revision that builds the two dictionaries with
\* newPDictType: it holds there
TypeEntriesAreNamesMem == rev = "mem" => TypeEntriesAreNames

-----------------------------------------------------------------------------
(* Properties of the drawing commands *)

\* C30: a drawing command appends one line, its operands and operator and a
\* newline, to the current content buffer, and leaves the registered
\* objects, the list of pages, the current page, the byte counter and the
\* sink as they were.
DrawFrame ==
    [][(rev = "stream" /\ hist'.ndraw = hist.ndraw + 1) =>
          /\ ret'.op = "Draw"
          /\ ret'.err = "ok"
          /\ \E c \in DrawCalls :
                /\ ~Contains(Command(c.nm, c.a), "\n")
                /\ con' = Buf((IF con.nil THEN "" ELSE con.b) \o Command(c.nm, c.a) \o "\n")
          /\ UNCHANGED <<heap, objs, pgs, pg, off, xOff, cat, ptree, w, out>>]_vars

\* C30 witness: after a page with MoveTo(-1, 2) was saved, Curve(1, 2, 3, 4,
\* 5, 6) was issued on the next page.
DrawFrameWitness ==
    /\ rev = "stream"
    /\ ret.op = "Draw"
    /\ Len(pgs) = 1
    /\ pg # NilPage
    /\ hist.ndraw = 2
    /\ Contains(out, "stream\n-1 2 m\n\nendstream")
    /\ con = Buf("1 2 3 4 5 6 c\n")

\* two commands in a row: the second line goes after the first
DrawFrameAppended ==
    /\ rev = "stream"
    /\ ret.op = "Draw"
    /\ con = Buf("0 0 1 1 re\nf\n")

====
